---- MODULE Spec2Model ----
(***************************************************************************)
(* fts_pdbsrc: the resolution daemon (fts_pdbsrc_service/src/main.rs) and  *)
(* the work-stealing job runner (fts_pdbsrc_service/src/job_system.rs).    *)
(***************************************************************************)
EXTENDS Integers, Sequences, FiniteSets, TLC

\* ------------------------------------------------------------------ bounds
\* largest worker count tried (num_workers ranges over 1..MaxWorkers)
MaxWorkers == 2
\* most units of work in one run: a seed s stands for the s+1 units s, s-1, .., 0
MaxJobs == 4
\* how many jobs may panic in one run
MaxPanics == 1
\* most units of work in a run of the fairness specification
FairJobs == 2

\* most events one watcher has waiting
MaxPending == 1
\* changes the environment makes (file operations, configuration edits)
MaxEvents == 3
\* the file operations, and the requests one peer sends, while connections
\* are served
ServeEvents == 1
MaxRequests == 2
\* frames written to one stream
MaxFrames == 2
\* longest list of decode keys in the client's config
MaxKeys == 3
\* most source file references in the container being embedded
MaxRefs == 2
\* longest list of decode keys used when extracting from an embedded container
MaxRowKeys == 2

\* ============================================================ job_system.rs
VARIABLES
    initial,         \* run_recursive_job's parameter `initial`
    num_workers,     \* run_recursive_job's parameter `num_workers`
    injector,        \* the shared Injector queue (FIFO)
    worker_queue,    \* each Worker deque; the stealers see the same deque
    active_count,    \* ActiveCounter.active_count
    wpc,             \* each worker thread's position
    witem,           \* the item a worker is executing
    wround,          \* find_task's position in one steal round: [idx, retry]
    worker_results,  \* each worker's worker_results
    result,          \* what run_recursive_job returned
    executed         \* history: value -> how many times job_copy ran to its end on it

jobVars == <<initial, num_workers, injector, worker_queue, active_count,
             wpc, witem, wround, worker_results, result, executed>>

\* fts_pdbsrc_service/main.rs
VARIABLES
    fs,             \* the files on disk: path -> what opening it as a container gives
    pdbs,           \* the index, Arc<Mutex<HashMap<Uuid, PathBuf>>>
    config_file,    \* fts_pdbsrc_service_config.json on disk
    config,         \* the Config in use
    log_level,      \* log::max_level()
    path_watchers,  \* the roots with a live Hotwatch in path_watchers
    pending,        \* root -> events its watcher has not handled yet
    callback,       \* root -> the watcher callback between validation and insert
    stale,          \* callbacks of torn-down watchers still between the two
    cfg_pending,    \* events the config watcher has not handled yet
    reload_pc,      \* the config watcher callback's position
    scanned,        \* find_pdbs' value, before it is stored
    listening,      \* the TcpListener accepts
    conn_pc,        \* connection -> its handler thread's position
    conn_req,       \* connection -> the last message its handler read
    conn_found,     \* connection -> its handler's local `result` of the lookup
    conn_out,       \* connection -> the last message its handler wrote
    conn_served,    \* connection -> how many requests its handler answered
    env_left        \* changes the environment may still make

daemonVars == <<fs, pdbs, config_file, config, log_level, path_watchers, pending,
                callback, stale, cfg_pending, reload_pc, scanned, listening,
                conn_pc, conn_req, conn_found, conn_out, conn_served, env_left>>

indexVars == <<fs, pdbs, config_file, config, log_level, path_watchers, pending,
               callback, stale, cfg_pending, reload_pc, scanned, env_left>>
connVars == <<listening, conn_pc, conn_req, conn_found, conn_out, conn_served>>

\* the daemon's threads statement by statement
VARIABLES
    svc_pc,         \* thread -> the statement it is at
    index_lock,     \* the thread holding the Mutex of the index, or "none"
    log_file,       \* the warn and error lines written to the log file
    svc_status,     \* the ServiceState last given to set_service_status
    shutdown_rx,    \* the stop messages waiting in the shutdown channel
    log_writer      \* the thread inside WriteLogger::log, holding the Mutex of
                    \* the log file, or "none"

svcVars == <<svc_pc, index_lock, log_file, svc_status, shutdown_rx, log_writer>>

\* src/main.rs, the command-line client
VARIABLES
    wire,           \* the TcpStream: what was written and is not read yet
    sent,           \* the messages given to send_message, in order
    received        \* what read_message returned, in order

wireVars == <<wire, sent, received>>

VARIABLES
    x_in,           \* an extract_one invocation: arguments, config, environment
    x_res           \* what came of it: result, output file, exit code

\* the threads of one extract_one process and the daemon's port
VARIABLES
    xt_in,          \* the uuid asked for, whether a daemon listens, its index,
                    \* and the containers under c:/temp/pdb
    xt_pc,          \* thread ("main", "watch") -> the statement it is at
    port_listener,  \* who listens on localhost:23685: "none", "daemon", "watch"
    relevant_pdbs,  \* the map the watch thread collected
    xt_peer,        \* who accepted the connection of the main thread
    xt_response     \* the message read_message returned to the main thread

threadVars == <<xt_in, xt_pc, port_listener, relevant_pdbs, xt_peer, xt_response>>

extractVars == <<x_in, x_res, threadVars>>

VARIABLES
    e_in,           \* an embed invocation: encrypt_mode and the container's file references
    e_pc,           \* where embed is: "off", "discover", "cipher", "stage", "directive", "done"
    filepaths,      \* the qualifying references, in discovery order
    cipher,         \* the key of the cipher, "" for None
    e_i,            \* index of the next entry of filepaths to write
    nonces,         \* raw path -> hex nonce, "" where the map has no entry
    draws,          \* history: every nonce the rng produced, in order
    streams,        \* the container's named streams /fts_pdbsrc/<relpath>
    srcsrv,         \* the container's srcsrv stream
    tempfiles,      \* the kept temporary files of embed that are on disk
    e_res           \* "" while running, then "Ok", "Err" or "Panic"

embedVars == <<e_in, e_pc, filepaths, cipher, e_i, nonces, draws, streams, srcsrv,
               tempfiles, e_res>>
cliVars == <<wireVars, extractVars, embedVars>>

NoItem == -1
NotReturned == <<-1>>

\* the fairness specification runs one worker more
WorkerIds == 1..(MaxWorkers + 1)
Workers == 1..num_workers

RECURSIVE SumSeq(_)
SumSeq(s) == IF s = <<>> THEN 0 ELSE Head(s) + SumSeq(Tail(s))

\* tests::instant_sum
instant_sum(value) == (value * (value + 1)) \div 2

RECURSIVE instant_sums(_)
instant_sums(values) ==
    IF values = <<>> THEN 0
    ELSE instant_sum(Head(values)) + instant_sums(Tail(values))

RECURSIVE JobCount(_)
JobCount(values) ==
    IF values = <<>> THEN 0 ELSE Head(values) + 1 + JobCount(Tail(values))

SeedLists ==
    {s \in UNION {[1..n -> 0..(MaxJobs - 1)] : n \in 0..MaxJobs} : JobCount(s) <= MaxJobs}

Front(s) == SubSeq(s, 1, Len(s) - 1)
Last(s) == s[Len(s)]

\* ---- the deques (crossbeam_deque as find_task and the job use them)
\* Worker::new_lifo: push appends at the back, pop takes the back
WorkerPush(q, item) == Append(q, item)
WorkerPopOldest(q) == Head(q)
WorkerPopItem(q) == Last(q)
WorkerPopRest(q) == Front(q)
\* Stealer::steal takes the front of the victim's deque and removes it
StealerStealKept(q) == q
StealerStealRest(q) == Tail(q)

\* Injector::steal_batch_and_pop on a batch of the first k items: the first is
\* returned to the caller, the others are pushed to the caller's deque
StealBatchLost(inj, k) == <<>>
StealBatchPushed(inj, k) == SubSeq(inj, 2, k)

\* tests::job: the follow-up a unit enqueues and the result it emits
JobPushes(value) == IF value > 0 THEN <<value - 1>> ELSE <<>>
JobEmits(value) == IF value > 0 THEN <<value>> ELSE <<>>

InitJob ==
    /\ initial \in SeedLists
    /\ num_workers \in 1..MaxWorkers
    /\ injector = initial
    /\ worker_queue = [w \in WorkerIds |-> <<>>]
    /\ active_count = 0
    /\ wpc = [w \in WorkerIds |-> IF w <= num_workers THEN "take" ELSE "unused"]
    /\ witem = [w \in WorkerIds |-> NoItem]
    /\ wround = [w \in WorkerIds |-> [idx |-> 0, retry |-> FALSE]]
    /\ worker_results = [w \in WorkerIds |-> <<>>]
    /\ result = NotReturned
    /\ executed = [v \in 0..MaxJobs |-> 0]

\* line 47: counter_copy.take_token() -- fetch_add
TakeToken(w) ==
    /\ wpc[w] = "take"
    /\ active_count' = active_count + 1
    /\ wpc' = [wpc EXCEPT ![w] = "drop"]
    /\ UNCHANGED <<svcVars, daemonVars, cliVars, executed, initial, num_workers, injector, worker_queue, witem, wround,
                   worker_results, result>>

\* line 47: `let _ = ...` binds nothing, so the ActiveToken is dropped at the
\* end of the statement -- ActiveToken::drop, fetch_sub
DropToken(w) ==
    /\ wpc[w] = "drop"
    /\ active_count' = active_count - 1
    /\ wpc' = [wpc EXCEPT ![w] = "pop"]
    /\ UNCHANGED <<svcVars, daemonVars, cliVars, executed, initial, num_workers, injector, worker_queue, witem, wround,
                   worker_results, result>>

\* find_task: local.pop()
LocalPop(w) ==
    /\ wpc[w] = "pop"
    /\ IF worker_queue[w] # <<>>
       THEN /\ witem' = [witem EXCEPT ![w] = WorkerPopItem(worker_queue[w])]
            /\ worker_queue' = [worker_queue EXCEPT ![w] = WorkerPopRest(@)]
            /\ wpc' = [wpc EXCEPT ![w] = "exec"]
            /\ UNCHANGED wround
       ELSE /\ wpc' = [wpc EXCEPT ![w] = "inject"]
            /\ wround' = [wround EXCEPT ![w] = [idx |-> 0, retry |-> FALSE]]
            /\ UNCHANGED <<witem, worker_queue>>
    /\ UNCHANGED <<svcVars, daemonVars, cliVars, executed, initial, num_workers, injector, active_count, worker_results, result>>

\* find_task's steal round after stealer `idx` gave no task: the next stealer
\* to ask (the worker's own stealer is passed over: its deque is empty since
\* local.pop() failed and only the owner pushes), or the end of the round.
\* `.find(|s| !s.is_retry())` starts another round after a Retry; otherwise
\* find_task returns None and the `while let` loop ends
NextStealer(w, idx) ==
    IF idx + 1 = w THEN idx + 2 ELSE idx + 1

RoundGoesOn(w, idx, retry) ==
    IF NextStealer(w, idx) <= num_workers
    THEN /\ wround' = [wround EXCEPT ![w] = [idx |-> NextStealer(w, idx), retry |-> retry]]
         /\ wpc' = [wpc EXCEPT ![w] = "steal"]
    ELSE /\ wround' = [wround EXCEPT ![w] = [idx |-> 0, retry |-> FALSE]]
         /\ wpc' = [wpc EXCEPT ![w] = IF retry THEN "inject" ELSE "check"]

\* find_task: global.steal_batch_and_pop(local) succeeds: a batch of k items
\* leaves the injector, the first is returned, the rest go to the local deque
InjectSuccess(w) ==
    /\ wpc[w] = "inject"
    /\ injector # <<>>
    /\ \E k \in 1..Len(injector) :
        /\ witem' = [witem EXCEPT ![w] = Head(injector)]
        /\ worker_queue' = [worker_queue EXCEPT ![w] = @ \o StealBatchPushed(injector, k)]
        /\ injector' = SubSeq(injector, k + 1, Len(injector))
    /\ wpc' = [wpc EXCEPT ![w] = "exec"]
    /\ UNCHANGED <<svcVars, daemonVars, cliVars, executed, initial, num_workers, active_count, wround, worker_results, result>>

\* find_task: steal_batch_and_pop answers Retry (it lost a race on a non-empty
\* injector); Steal::or_else then still tries the stealers
InjectRetry(w) ==
    /\ wpc[w] = "inject"
    /\ injector # <<>>
    /\ \E v \in Workers \ {w} : wpc[v] \in {"inject"}
    /\ RoundGoesOn(w, 0, TRUE)
    /\ UNCHANGED <<svcVars, daemonVars, cliVars, executed, initial, num_workers, injector, worker_queue, active_count, witem,
                   worker_results, result>>

\* find_task: steal_batch_and_pop answers Empty
InjectEmpty(w) ==
    /\ wpc[w] = "inject"
    /\ injector = <<>>
    /\ RoundGoesOn(w, 0, FALSE)
    /\ UNCHANGED <<svcVars, daemonVars, cliVars, executed, initial, num_workers, injector, worker_queue, active_count, witem,
                   worker_results, result>>

\* find_task: stealers[idx].steal() succeeds
StealSuccess(w) ==
    /\ wpc[w] = "steal"
    /\ wround[w].idx \in Workers
    /\ LET v == wround[w].idx IN
        /\ worker_queue[v] # <<>>
        /\ witem' = [witem EXCEPT ![w] = Head(worker_queue[v])]
        /\ worker_queue' = [worker_queue EXCEPT ![v] = StealerStealRest(@)]
    /\ wpc' = [wpc EXCEPT ![w] = "exec"]
    /\ UNCHANGED <<svcVars, daemonVars, cliVars, executed, initial, num_workers, injector, active_count, wround,
                   worker_results, result>>

\* find_task: stealers[idx].steal() answers Retry (it lost a race with the
\* owner or another thief on a non-empty deque); collect goes on
StealRetry(w) ==
    /\ wpc[w] = "steal"
    /\ wround[w].idx \in Workers
    /\ LET v == wround[w].idx IN
        /\ worker_queue[v] # <<>>
        /\ \E u \in Workers \ {w} :
              \/ u = v /\ wpc[u] = "pop"
              \/ wpc[u] = "steal" /\ wround[u].idx = v
    /\ RoundGoesOn(w, wround[w].idx, TRUE)
    /\ UNCHANGED <<svcVars, daemonVars, cliVars, executed, initial, num_workers, injector, worker_queue, active_count,
                   witem, worker_results, result>>

\* find_task: stealers[idx].steal() answers Empty; collect goes on
StealEmpty(w) ==
    /\ wpc[w] = "steal"
    /\ wround[w].idx \in Workers
    /\ worker_queue[wround[w].idx] = <<>>
    /\ RoundGoesOn(w, wround[w].idx, wround[w].retry)
    /\ UNCHANGED <<svcVars, daemonVars, cliVars, executed, initial, num_workers, injector, worker_queue, active_count,
                   witem, worker_results, result>>

\* lines 49-54: job_copy(item, &worker) returns
ExecJob(w) ==
    /\ wpc[w] = "exec"
    /\ worker_queue' = [worker_queue EXCEPT ![w] = @ \o JobPushes(witem[w])]
    /\ worker_results' = [worker_results EXCEPT ![w] = @ \o JobEmits(witem[w])]
    /\ executed' = [executed EXCEPT ![witem[w]] = @ + 1]
    /\ witem' = [witem EXCEPT ![w] = NoItem]
    /\ wpc' = [wpc EXCEPT ![w] = "pop"]
    /\ UNCHANGED <<svcVars, daemonVars, cliVars, initial, num_workers, injector, active_count, wround, result>>

Panicked == {w \in WorkerIds : wpc[w] = "panicked"}

\* line 52: job_copy panics; the thread unwinds, its worker_results are lost
\* with it, its deque stays reachable through the stealers
ExecPanic(w) ==
    /\ wpc[w] = "exec"
    /\ Cardinality(Panicked) < MaxPanics
    /\ witem' = [witem EXCEPT ![w] = NoItem]
    /\ wpc' = [wpc EXCEPT ![w] = "panicked"]
    /\ UNCHANGED <<svcVars, daemonVars, cliVars, executed, initial, num_workers, injector, worker_queue, active_count, wround,
                   worker_results, result>>

\* lines 59-64: counter_copy.is_zero() -- break, or backoff.snooze() and loop
IsZeroBreak(counter) == counter = 0

CheckIdle(w) ==
    /\ wpc[w] = "check"
    /\ wpc' = [wpc EXCEPT ![w] = IF IsZeroBreak(active_count) THEN "done" ELSE "take"]
    /\ UNCHANGED <<svcVars, daemonVars, cliVars, executed, initial, num_workers, injector, worker_queue, active_count, witem,
                   wround, worker_results, result>>

RECURSIVE JoinFrom(_, _, _, _)
JoinFrom(w, n, pcs, res) ==
    IF w > n THEN <<>>
    ELSE (IF pcs[w] = "done" THEN res[w] ELSE <<>>) \o JoinFrom(w + 1, n, pcs, res)

\* lines 74-82: join every worker, keep the Ok ones, flatten
JoinAll ==
    /\ result = NotReturned
    /\ \A w \in Workers : wpc[w] \in {"done", "panicked"}
    /\ result' = JoinFrom(1, num_workers, wpc, worker_results)
    /\ UNCHANGED <<svcVars, daemonVars, cliVars, executed, initial, num_workers, injector, worker_queue, active_count, wpc,
                   witem, wround, worker_results>>

WorkerStep(w) ==
    \/ TakeToken(w)
    \/ DropToken(w)
    \/ LocalPop(w)
    \/ InjectSuccess(w)
    \/ InjectRetry(w)
    \/ InjectEmpty(w)
    \/ StealSuccess(w)
    \/ StealRetry(w)
    \/ StealEmpty(w)
    \/ ExecJob(w)
    \/ CheckIdle(w)

NextJobNoPanic ==
    \/ \E w \in Workers : TakeToken(w)
    \/ \E w \in Workers : DropToken(w)
    \/ \E w \in Workers : LocalPop(w)
    \/ \E w \in Workers : InjectSuccess(w)
    \/ \E w \in Workers : InjectRetry(w)
    \/ \E w \in Workers : InjectEmpty(w)
    \/ \E w \in Workers : StealSuccess(w)
    \/ \E w \in Workers : StealRetry(w)
    \/ \E w \in Workers : StealEmpty(w)
    \/ \E w \in Workers : ExecJob(w)
    \/ \E w \in Workers : CheckIdle(w)
    \/ JoinAll

NextJob == NextJobNoPanic \/ (\E w \in Workers : ExecPanic(w))

\* ================================================= fts_pdbsrc_service/main.rs
Uuids == {"U1", "U2"}
Roots == {"r1", "r2"}
PdbA == [root |-> "r1", name |-> "a", ext |-> "pdb"]
TxtB == [root |-> "r1", name |-> "b", ext |-> "txt"]
PdbC == [root |-> "r2", name |-> "c", ext |-> "pdb"]
Paths == {PdbA, TxtB, PdbC}
NoPath == [root |-> "", name |-> "", ext |-> ""]
\* what a file holds: nothing there, something that is no compatible container,
\* or a compatible container whose srcsrv stream carries that identity
Contents(p) == IF p = TxtB THEN {"absent", "U1"} ELSE {"absent", "invalid"} \cup Uuids

\* the tree the daemon starts on: nothing there, or one compatible container
EmptyTree == [p \in Paths |-> "absent"]
OneContainer == [p \in Paths |-> IF p = PdbA THEN "U1" ELSE "absent"]

Conns == {"c1", "c2"}

ConfigBoth == [paths |-> <<"r1", "r2">>, log_level |-> "Info"]
ConfigSecond == [paths |-> <<"r2">>, log_level |-> "Trace"]
ConfigUnparsable == [paths |-> <<>>, log_level |-> "?"]
ConfigFiles == {ConfigBoth, ConfigSecond, ConfigUnparsable}

Idle == [uuid |-> "", path |-> NoPath]
NoScan == [u \in Uuids |-> NoPath]
NoMessage == [type |-> "", uuid |-> "", path |-> NoPath]

SeqRange(s) == {s[i] : i \in 1..Len(s)}

\* ---- HashMap<Uuid, PathBuf>
MapGet(map, uuid) == map[uuid]
MapInsertIfAbsent(map, uuid, path) ==
    IF map[uuid] = NoPath THEN [map EXCEPT ![uuid] = path] ELSE map
MapInsert(map, uuid, path) == [map EXCEPT ![uuid] = path]
MapRemove(map, uuid) == [map EXCEPT ![uuid] = NoPath]
MapKeys(map) == {u \in Uuids : map[u] # NoPath}

\* watch_paths: is_pdb
is_pdb(path) == path.ext = "pdb"

\* process_pdb_path: Some((uuid, path)) for a compatible container, else None
process_pdb_path(files, path) ==
    IF ~(path.ext = "pdb") THEN Idle
    ELSE IF files[path] \in Uuids THEN [uuid |-> files[path], path |-> path]
    ELSE Idle

\* find_pdbs: walk the roots in the order of the list, collect into a HashMap
\* (a later entry replaces an earlier one of the same identity)
RECURSIVE CollectPdbs(_, _, _)
CollectPdbs(files, entries, map) ==
    IF entries = <<>> THEN map
    ELSE LET found == process_pdb_path(files, Head(entries)) IN
         CollectPdbs(files, Tail(entries),
                     IF found = Idle THEN map ELSE MapInsert(map, found.uuid, found.path))

\* walkdir::WalkDir::new(root): the files under one root
WalkDir(root) ==
    IF root = "r1" THEN <<PdbA, TxtB>> ELSE <<PdbC>>

RECURSIVE WalkAll(_)
WalkAll(paths) ==
    IF paths = <<>> THEN <<>> ELSE WalkDir(Head(paths)) \o WalkAll(Tail(paths))

find_pdbs(files, paths) == CollectPdbs(files, WalkAll(paths), NoScan)

\* run_service up to line 184: the config read, the level set, the first scan
\* of the tree as it is then, one watcher per root
InitIndexPart(files) ==
    /\ fs = files
    /\ config_file = ConfigBoth
    /\ config = ConfigBoth
    /\ log_level = ConfigBoth.log_level
    /\ pdbs = find_pdbs(fs, ConfigBoth.paths)
    /\ path_watchers = SeqRange(ConfigBoth.paths)
    /\ pending = [r \in Roots |-> <<>>]
    /\ callback = [r \in Roots |-> Idle]
    /\ stale = {}
    /\ cfg_pending = <<>>
    /\ reload_pc = "idle"
    /\ scanned = NoScan

InitConnPart ==
    /\ listening = TRUE
    /\ conn_pc = [c \in Conns |-> "none"]
    /\ conn_req = [c \in Conns |-> NoMessage]
    /\ conn_found = [c \in Conns |-> NoPath]
    /\ conn_out = [c \in Conns |-> NoMessage]
    /\ conn_served = [c \in Conns |-> 0]

\* ---- the environment: files change, the watcher of the root gets the event
Notify(path, kind) ==
    IF path.root \in path_watchers
    THEN /\ Len(pending[path.root]) < MaxPending
         /\ pending' = [pending EXCEPT ![path.root] = Append(@, [kind |-> kind, path |-> path])]
    ELSE UNCHANGED pending

FsWrite(path, content) ==
    /\ env_left > 0
    /\ content \in Contents(path) \ {"absent"}
    /\ fs' = [fs EXCEPT ![path] = content]
    /\ Notify(path, IF fs[path] = "absent" THEN "Create" ELSE "Write")
    /\ env_left' = env_left - 1
    /\ UNCHANGED <<svcVars, jobVars, cliVars, connVars, pdbs, config_file, config, log_level, path_watchers, callback, stale,
                   cfg_pending, reload_pc, scanned>>

FsRemove(path, kind) ==
    /\ env_left > 0
    /\ fs[path] # "absent"
    /\ kind \in {"Remove", "Rename"}
    /\ fs' = [fs EXCEPT ![path] = "absent"]
    /\ Notify(path, kind)
    /\ env_left' = env_left - 1
    /\ UNCHANGED <<svcVars, jobVars, cliVars, connVars, pdbs, config_file, config, log_level, path_watchers, callback, stale,
                   cfg_pending, reload_pc, scanned>>

ConfigEdit(content, kind) ==
    /\ env_left > 0
    /\ Len(cfg_pending) < MaxPending
    /\ kind = "Write" \/ content = config_file
    /\ config_file' = content
    /\ cfg_pending' = Append(cfg_pending, kind)
    /\ env_left' = env_left - 1
    /\ UNCHANGED <<svcVars, jobVars, cliVars, connVars, fs, pdbs, config, log_level, path_watchers, pending, callback, stale,
                   reload_pc, scanned>>

\* ---- watch_paths: the callback of root r's watcher
\* lines 357-377: Remove(path) or Rename(path, _)
RemoveAllKeys(map, path, key) == [u \in Uuids |-> NoPath]
RemoveKey(map, path, key) == MapRemove(map, key)

WatchRemove(r) ==
    /\ r \in path_watchers
    /\ callback[r] = Idle
    /\ pending[r] # <<>>
    /\ Head(pending[r]).kind \in {"Remove", "Rename"}
    /\ LET path == Head(pending[r]).path
           keys == {u \in MapKeys(pdbs) : pdbs[u] = path}
       IN  IF is_pdb(path) /\ keys # {}
           THEN \E key \in keys : pdbs' = RemoveKey(pdbs, path, key)
           ELSE UNCHANGED pdbs
    /\ pending' = [pending EXCEPT ![r] = Tail(@)]
    /\ UNCHANGED <<svcVars, jobVars, cliVars, connVars, fs, config_file, config, log_level, path_watchers, callback, stale,
                   cfg_pending, reload_pc, scanned, env_left>>

\* lines 379-389: Create(path) or Write(path): is_pdb, then process_pdb_path
WatchValidate(r) ==
    /\ r \in path_watchers
    /\ callback[r] = Idle
    /\ pending[r] # <<>>
    /\ Head(pending[r]).kind \in {"Create", "Write"}
    /\ LET path == Head(pending[r]).path IN
        callback' = [callback EXCEPT ![r] =
                        IF is_pdb(path) THEN process_pdb_path(fs, path) ELSE Idle]
    /\ pending' = [pending EXCEPT ![r] = Tail(@)]
    /\ UNCHANGED <<svcVars, jobVars, cliVars, connVars, fs, pdbs, config_file, config, log_level, path_watchers, stale,
                   cfg_pending, reload_pc, scanned, env_left>>

\* line 391: pdbs2.lock().unwrap().insert(uuid, path)
WatchInsert(r) ==
    /\ callback[r] # Idle
    /\ pdbs' = MapInsert(pdbs, callback[r].uuid, callback[r].path)
    /\ callback' = [callback EXCEPT ![r] = Idle]
    /\ UNCHANGED <<svcVars, jobVars, cliVars, connVars, fs, config_file, config, log_level, path_watchers, pending, stale,
                   cfg_pending, reload_pc, scanned, env_left>>

\* line 391, in the callback of a watcher that path_watchers.clear() dropped
\* while the callback was running: the thread finishes its callback
StaleInsert ==
    /\ \E cb \in stale :
        /\ pdbs' = MapInsert(pdbs, cb.uuid, cb.path)
        /\ stale' = stale \ {cb}
    /\ UNCHANGED <<svcVars, jobVars, cliVars, connVars, fs, config_file, config, log_level, path_watchers, pending, callback,
                   cfg_pending, reload_pc, scanned, env_left>>

\* ---- run_service: the config watcher's callback
\* line 193: an event that is no Write is ignored
ConfigOtherEvent ==
    /\ reload_pc = "idle"
    /\ cfg_pending # <<>>
    /\ Head(cfg_pending) # "Write"
    /\ cfg_pending' = Tail(cfg_pending)
    /\ UNCHANGED <<svcVars, jobVars, cliVars, connVars, fs, pdbs, config_file, config, log_level, path_watchers, pending,
                   callback, stale, reload_pc, scanned, env_left>>

\* read_config: Err when the file does not parse
read_config(file) == IF file = ConfigUnparsable THEN "Err" ELSE "Ok"

\* line 197: read_config(&path)? fails: the closure returns before it changed anything
WatchersCleared(watchers) == {}
WatchersAfterFailure(watchers) == watchers

ReloadFail ==
    /\ reload_pc = "idle"
    /\ cfg_pending # <<>>
    /\ Head(cfg_pending) = "Write"
    /\ read_config(config_file) = "Err"
    /\ cfg_pending' = Tail(cfg_pending)
    /\ path_watchers' = WatchersAfterFailure(path_watchers)
    /\ UNCHANGED <<svcVars, jobVars, cliVars, connVars, fs, pdbs, config_file, config, log_level, pending,
                   callback, stale, reload_pc, scanned, env_left>>

\* lines 197-206: read_config succeeds; set the log level; path_watchers.clear();
\* path_watchers = watch_paths(new paths). A dropped watcher's waiting events go
\* with it; a callback it is running runs on to its insert
ReloadBegin ==
    /\ reload_pc = "idle"
    /\ cfg_pending # <<>>
    /\ Head(cfg_pending) = "Write"
    /\ read_config(config_file) = "Ok"
    /\ LET new_config == config_file IN
        /\ config' = new_config
        /\ log_level' = new_config.log_level
        /\ \E failed \in SUBSET SeqRange(new_config.paths) :
              path_watchers' = SeqRange(new_config.paths) \ failed
    /\ stale' = stale \cup {callback[r] : r \in {x \in Roots : callback[x] # Idle}}
    /\ callback' = [r \in Roots |-> Idle]
    /\ pending' = [r \in Roots |-> <<>>]
    /\ cfg_pending' = Tail(cfg_pending)
    /\ reload_pc' = "scan"
    /\ UNCHANGED <<svcVars, jobVars, cliVars, connVars, fs, pdbs, config_file, scanned, env_left>>

\* line 209, right-hand side: find_pdbs(&new_config.paths), without the lock
ReloadScan ==
    /\ reload_pc = "scan"
    /\ scanned' = find_pdbs(fs, config.paths)
    /\ reload_pc' = "store"
    /\ UNCHANGED <<svcVars, jobVars, cliVars, connVars, fs, pdbs, config_file, config, log_level, path_watchers, pending,
                   callback, stale, cfg_pending, env_left>>

\* line 480: dir_entry.unwrap() panics on a walk error (a root that cannot be
\* read); the config watcher's thread ends inside the callback
ReloadScanPanic ==
    /\ reload_pc = "scan"
    /\ reload_pc' = "dead"
    /\ UNCHANGED <<svcVars, jobVars, cliVars, connVars, fs, pdbs, config_file, config, log_level, path_watchers, pending,
                   callback, stale, cfg_pending, scanned, env_left>>

\* line 209, the assignment: *pdbs2.lock().unwrap() = <the scan>
ReloadStore ==
    /\ reload_pc = "store"
    /\ pdbs' = scanned
    /\ scanned' = NoScan
    /\ reload_pc' = "idle"
    /\ UNCHANGED <<svcVars, jobVars, cliVars, connVars, fs, config_file, config, log_level, path_watchers, pending,
                   callback, stale, cfg_pending, env_left>>

NextIndex ==
    \/ \E p \in Paths : \E c \in Contents(p) : FsWrite(p, c)
    \/ \E p \in Paths : \E k \in {"Remove", "Rename"} : FsRemove(p, k)
    \/ \E c \in ConfigFiles : \E k \in {"Write", "Chmod"} : ConfigEdit(c, k)
    \/ \E r \in Roots : WatchRemove(r)
    \/ \E r \in Roots : WatchValidate(r)
    \/ \E r \in Roots : WatchInsert(r)
    \/ StaleInsert
    \/ ConfigOtherEvent
    \/ ReloadFail
    \/ ReloadBegin
    \/ ReloadScan
    \/ ReloadScanPanic
    \/ ReloadStore

\* ---- accept_connections
\* enum Message
FindPdb(uuid) == [type |-> "FindPdb", uuid |-> uuid, path |-> NoPath]
FoundPdb(uuid, path) == [type |-> "FoundPdb", uuid |-> uuid, path |-> path]
\* what read_message gives that is no message: a frame that does not
\* deserialize, or the end of the stream
Malformed == [type |-> "Malformed", uuid |-> "", path |-> NoPath]
Disconnect == [type |-> "Disconnect", uuid |-> "", path |-> NoPath]

Requests == {FindPdb(u) : u \in Uuids}
NotRequests == {FoundPdb(u, NoPath) : u \in Uuids} \cup {Malformed, Disconnect}

\* lines 294-301: the listener accepts a connection and spawns its handler
Accept(c) ==
    /\ listening
    /\ conn_pc[c] = "none"
    /\ conn_pc' = [conn_pc EXCEPT ![c] = "open"]
    /\ UNCHANGED <<svcVars, jobVars, cliVars, indexVars, listening, conn_req, conn_found, conn_out, conn_served>>

\* line 275: pdb_db.lock().unwrap().get(&uuid).cloned()
SearchMiss(map, uuid) == NoPath
SearchResult(map, uuid) == IF uuid \in DOMAIN map THEN MapGet(map, uuid) ELSE NoPath

\* lines 270-275: read_message gives FindPdb(uuid); the lookup, under the lock
HandleFindPdb(c, msg) ==
    /\ conn_pc[c] = "open"
    /\ conn_served[c] < MaxRequests
    /\ msg \in Requests
    /\ conn_req' = [conn_req EXCEPT ![c] = msg]
    /\ conn_found' = [conn_found EXCEPT ![c] = SearchResult(pdbs, msg.uuid)]
    /\ conn_out' = [conn_out EXCEPT ![c] = NoMessage]
    /\ conn_pc' = [conn_pc EXCEPT ![c] = "send"]
    /\ UNCHANGED <<svcVars, jobVars, cliVars, indexVars, listening, conn_served>>

\* line 269: `loop`: after a response was sent the handler reads again
HandlerReturns(pc) == IF pc = "send" THEN "closed" ELSE pc
HandlerLoop(pc) == IF pc = "send" THEN "open" ELSE pc

\* lines 277-285: send_message(FoundPdb(uuid, result)), the lock released
SendFoundPdb(c) ==
    /\ conn_pc[c] = "send"
    /\ conn_out' = [conn_out EXCEPT ![c] = FoundPdb(conn_req[c].uuid, conn_found[c])]
    /\ conn_found' = [conn_found EXCEPT ![c] = NoPath]
    /\ conn_served' = [conn_served EXCEPT ![c] = @ + 1]
    /\ conn_pc' = [conn_pc EXCEPT ![c] = HandlerLoop(@)]
    /\ UNCHANGED <<svcVars, jobVars, cliVars, indexVars, listening, conn_req>>

\* the handler's error affects this connection only: what accept_connections'
\* loop keeps doing after a handler returned Err (lines 298-301)
ListenerStops(l) == FALSE
ListenerAfterError(l) == l

\* lines 270, 287, 299-300: read_message fails, or gives another message: the
\* handler returns Err, the thread shuts the stream down and ends
HandleError(c, msg) ==
    /\ conn_pc[c] = "open"
    /\ msg \in NotRequests
    /\ conn_pc' = [conn_pc EXCEPT ![c] = "closed"]
    /\ listening' = ListenerAfterError(listening)
    /\ UNCHANGED <<svcVars, jobVars, cliVars, indexVars, conn_req, conn_found, conn_out, conn_served>>

\* lines 279, 283: send_message fails (the peer is gone): the handler returns Err
HandleSendError(c) ==
    /\ conn_pc[c] = "send"
    /\ conn_found' = [conn_found EXCEPT ![c] = NoPath]
    /\ conn_pc' = [conn_pc EXCEPT ![c] = "closed"]
    /\ listening' = ListenerAfterError(listening)
    /\ UNCHANGED <<svcVars, jobVars, cliVars, indexVars, conn_req, conn_out, conn_served>>

\* the watcher callbacks alone, the configuration never touched
NextWatch ==
    \/ \E p \in Paths : \E c \in Contents(p) : FsWrite(p, c)
    \/ \E p \in Paths : \E k \in {"Remove", "Rename"} : FsRemove(p, k)
    \/ \E r \in Roots : WatchRemove(r)
    \/ \E r \in Roots : WatchValidate(r)
    \/ \E r \in Roots : WatchInsert(r)

\* the daemon serving connections while the watchers keep the index
NextServe ==
    \/ \E p \in Paths : \E c \in Contents(p) : FsWrite(p, c)
    \/ \E p \in Paths : \E k \in {"Remove", "Rename"} : FsRemove(p, k)
    \/ \E r \in Roots : WatchRemove(r)
    \/ \E r \in Roots : WatchValidate(r)
    \/ \E r \in Roots : WatchInsert(r)
    \/ \E c \in Conns : Accept(c)
    \/ \E c \in Conns : \E m \in Requests : HandleFindPdb(c, m)
    \/ \E c \in Conns : SendFoundPdb(c)
    \/ \E c \in Conns : \E m \in NotRequests : HandleError(c, m)
    \/ \E c \in Conns : HandleSendError(c)

\* ====================================================== src/main.rs (client)
\* ---- send_message / read_message, the same two functions in both programs
\* u16: the packet size is cast to it (buf.len() as u16)
U16 == 65536

\* a path too long for one frame
LongPath == [root |-> "r1", name |-> "long", ext |-> "pdb"]
WireMessages == Requests \cup {FoundPdb(u, p) : u \in Uuids, p \in {NoPath, PdbA, LongPath}}

\* rmp_serde::to_vec(&message).len(): the variant and the identity, then the
\* path's bytes when there is a path
PathBytes(path) == IF path = LongPath THEN 65530 ELSE 12
EncodedLen(m) ==
    IF m.type = "FindPdb" THEN 20
    ELSE IF m.path = NoPath THEN 21
    ELSE 22 + PathBytes(m.path)

\* u16::to_ne_bytes / u16::from_ne_bytes on one host
to_ne_bytes(n) == <<n % 256, (n \div 256) % 256>>
from_be_bytes(b) == 256 * b[1] + b[2]
from_ne_bytes(b) == b[1] + 256 * b[2]

\* what send_message writes: the two bytes of the size, then the encoding
Frame(m) ==
    << [kind |-> "size", bytes |-> to_ne_bytes(EncodedLen(m) % U16), msg |-> NoMessage, left |-> 2],
       [kind |-> "body", bytes |-> <<>>, msg |-> m, left |-> EncodedLen(m)] >>

RECURSIVE Frames(_)
Frames(ms) == IF ms = <<>> THEN <<>> ELSE Frame(Head(ms)) \o Frames(Tail(ms))

ReadErr == [type |-> "Err", uuid |-> "", path |-> NoPath]

InitWire ==
    /\ wire = <<>>
    /\ sent = <<>>
    /\ received = <<>>

\* send_message: both write_all calls
SendMessage(m) ==
    /\ Len(sent) < MaxFrames
    /\ wire' = wire \o Frame(m)
    /\ sent' = Append(sent, m)
    /\ UNCHANGED <<svcVars, jobVars, daemonVars, extractVars, embedVars, received>>

\* read_message at a frame's first byte: read_exact of the size, read_exact of
\* that many bytes, from_read_ref. Fewer bytes than the encoding do not
\* deserialize and the rest stays in the stream; more than the encoding is
\* there never arrive, read_exact ends in an error
ReadMessage ==
    /\ Len(wire) >= 2
    /\ wire[1].kind = "size"
    /\ LET packet_size == from_ne_bytes(wire[1].bytes)
           body == wire[2]
       IN  IF packet_size = body.left
           THEN /\ received' = Append(received, body.msg)
                /\ wire' = Tail(Tail(wire))
           ELSE IF packet_size < body.left
           THEN /\ received' = Append(received, ReadErr)
                /\ wire' = <<[body EXCEPT !.kind = "rest", !.left = body.left - packet_size]>>
                             \o Tail(Tail(wire))
           ELSE /\ received' = Append(received, ReadErr)
                /\ wire' = <<>>
    /\ UNCHANGED <<svcVars, jobVars, daemonVars, extractVars, embedVars, sent>>

\* read_message in the middle of an encoding: the two bytes it takes for a
\* size are the encoding's, what comes of it is anything
ReadGarbage ==
    /\ wire # <<>>
    /\ wire[1].kind = "rest"
    /\ \E m \in WireMessages \cup {ReadErr} : received' = Append(received, m)
    /\ wire' = Tail(wire)
    /\ UNCHANGED <<svcVars, jobVars, daemonVars, extractVars, embedVars, sent>>

NextWire ==
    \/ \E m \in WireMessages : SendMessage(m)
    \/ ReadMessage
    \/ ReadGarbage

\* ---- extract_one
\* 32-byte keys (hex), and two strings that are none: one that is no hex, one
\* that is hex of another length
Keys == {"K1", "K2", "K3"}
NotHex == "nothex"
ShortHex == "short"
KeyStrings == Keys \cup {NotHex, ShortHex}
\* 12-byte nonces (hex); the empty string; no --nonce argument at all
Nonces == {"N1", "N2"}
NoNonceArg == "absent"
NonceArgs == Nonces \cup {"", NoNonceArg}

RECURSIVE SeqsUpTo(_, _)
SeqsUpTo(S, n) ==
    IF n = 0 THEN {<<>>}
    ELSE LET shorter == SeqsUpTo(S, n - 1)
         IN  shorter \cup {Append(q, x) : q \in shorter, x \in S}

\* Aes256Gcm: encrypt, and what a named stream holds (encrypted or as it was)
Encrypt(key, nonce, plain) == [key |-> key, nonce |-> nonce, plain |-> plain]
Staged(plain) == [key |-> "", nonce |-> "", plain |-> plain]
NoStream == [key |-> "", nonce |-> "", plain |-> ""]
\* cipher.decrypt: the plaintext if the tag verifies, else an error
Decrypt(key, nonce, stream) ==
    IF stream.key = key /\ stream.nonce = nonce /\ key # ""
    THEN [ok |-> "Ok", plain |-> stream.plain]
    ELSE [ok |-> "Err", plain |-> ""]

\* lines 456-467: try_key. hex::decode(..)? gives Err on a string that is no
\* hex; Key::from_slice and Nonce::from_slice panic on another length
try_key(key_hex, nonce_str, cipher_text) ==
    IF key_hex \notin Keys \cup {ShortHex} THEN [ok |-> "Err", plain |-> ""]
    ELSE IF key_hex = ShortHex THEN [ok |-> "Panic", plain |-> ""]
    ELSE IF nonce_str \notin Nonces \cup {""} THEN [ok |-> "Err", plain |-> ""]
    ELSE IF nonce_str = "" THEN [ok |-> "Panic", plain |-> ""]
    ELSE Decrypt(key_hex, nonce_str, cipher_text)

\* lines 454-475: try_decrypt
try_first_key(decode_keys, nonce_str, cipher_text) ==
    IF decode_keys = <<>> THEN [ok |-> "Err", plain |-> ""]
    ELSE try_key(Head(decode_keys), nonce_str, cipher_text)
RECURSIVE try_decrypt(_, _, _)
try_decrypt(decode_keys, nonce_str, cipher_text) ==
    IF decode_keys = <<>> THEN [ok |-> "Err", plain |-> ""]
    ELSE LET tried == try_key(Head(decode_keys), nonce_str, cipher_text)
         IN  IF tried.ok = "Err"
             THEN try_decrypt(Tail(decode_keys), nonce_str, cipher_text)
             ELSE tried

\* what extract_one comes to: Ok / Err / Panic, the bytes written to op.out
\* (none: NoStream), whether the container was opened
Outcome(outcome, out, opened) == [result |-> outcome, out |-> out, opened |-> opened]

\* lines 407-494. in.connected: TcpStream::connect succeeded; in.response:
\* what read_message gave; in.container_ok: the path in the response opens as
\* a container; in.stream: the named stream /fts_pdbsrc/<file> in it, if any
extract_one(in) ==
    IF ~in.connected THEN Outcome("Ok", NoStream, FALSE)
    ELSE IF in.response.type # "FoundPdb" \/ in.response.path = NoPath
         THEN Outcome("Err", NoStream, FALSE)
    ELSE IF in.response.uuid # in.pdb_uuid THEN Outcome("Panic", NoStream, FALSE)
    ELSE IF ~in.container_ok THEN Outcome("Err", NoStream, FALSE)
    ELSE IF in.stream = NoStream THEN Outcome("Panic", NoStream, TRUE)
    ELSE LET plain_text == try_decrypt(in.decode_keys, in.nonce, in.stream)
         IN  IF plain_text.ok = "Ok"
             THEN Outcome("Ok", Staged(plain_text.plain), TRUE)
             ELSE Outcome(plain_text.ok, NoStream, TRUE)

\* lines 153-171: main. Opts::from_args ends the process with a usage error
\* (exit code 1) when --nonce is missing; read_config()? returns the error
\* from main (exit code 1); run's Err is printed to stderr, exit code 1; a
\* panic of the main thread prints its message to stderr, exit code 101
ExitCode(outcome) == IF outcome = "Ok" THEN 0 ELSE IF outcome = "Err" THEN 1 ELSE 101
main_extract(in) ==
    IF in.nonce = NoNonceArg \/ ~in.config_ok
    THEN [result |-> "Err", out |-> NoStream, opened |-> FALSE,
          exit |-> 1, stderr |-> TRUE]
    ELSE LET o == extract_one(in)
         IN  [result |-> o.result, out |-> o.out, opened |-> o.opened,
              exit |-> ExitCode(o.result), stderr |-> o.result # "Ok"]

Responses == {FoundPdb(u, p) : u \in Uuids, p \in {NoPath, PdbA}} \cup {FindPdb("U1"), ReadErr}
Streams == {Encrypt(k, n, "A") : k \in Keys, n \in Nonces} \cup {Staged("A"), NoStream}

NotRun == [result |-> "", out |-> NoStream, opened |-> FALSE, exit |-> 0, stderr |-> FALSE]
NoInput == [pdb_uuid |-> "", file |-> "", nonce |-> "", decode_keys |-> <<>>, config_ok |-> FALSE,
            connected |-> FALSE, response |-> NoMessage, container_ok |-> FALSE,
            stream |-> NoStream]

\* ---- extract_one's threads: the `watch` it spawns and its connection
NoEnv == [pdb_uuid |-> "", daemon_up |-> FALSE, daemon_pdbs |-> NoScan, temp_pdbs |-> NoScan]
ThreadInputs ==
    [pdb_uuid : Uuids, daemon_up : BOOLEAN,
     daemon_pdbs : [Uuids -> {NoPath, PdbA}], temp_pdbs : [Uuids -> {NoPath, PdbC}]]

InitThreadsOff ==
    /\ xt_in = NoEnv
    /\ xt_pc = [t \in {"main", "watch"} |-> "off"]
    /\ port_listener = "none"
    /\ relevant_pdbs = NoScan
    /\ xt_peer = "none"
    /\ xt_response = NoMessage

\* extract_one is entered; a running daemon holds the port
InitThreads ==
    /\ xt_in \in ThreadInputs
    /\ xt_pc = [t \in {"main", "watch"} |-> IF t = "main" THEN "spawn" ELSE "off"]
    /\ port_listener = IF xt_in.daemon_up THEN "daemon" ELSE "none"
    /\ relevant_pdbs = NoScan
    /\ xt_peer = "none"
    /\ xt_response = NoMessage

\* line 409: std::thread::spawn(|| watch(WatchOp {}))
SpawnWatch ==
    /\ xt_pc["main"] = "spawn"
    /\ xt_pc' = [xt_pc EXCEPT !["main"] = "connect", !["watch"] = "scan"]
    /\ UNCHANGED <<svcVars, jobVars, daemonVars, wireVars, embedVars, x_in, x_res,
                   xt_in, port_listener, relevant_pdbs, xt_peer, xt_response>>

\* lines 535-583, in the watch thread: walk c:/temp/pdb, collect the
\* compatible containers by identity
WatchScan ==
    /\ xt_pc["watch"] = "scan" /\ xt_pc["main"] # "exited"
    /\ relevant_pdbs' = xt_in.temp_pdbs
    /\ xt_pc' = [xt_pc EXCEPT !["watch"] = "bind"]
    /\ UNCHANGED <<svcVars, jobVars, daemonVars, wireVars, embedVars, x_in, x_res,
                   xt_in, port_listener, xt_peer, xt_response>>

\* line 601, in the watch thread: TcpListener::bind("localhost:23685")?
WatchBind ==
    /\ xt_pc["watch"] = "bind" /\ xt_pc["main"] # "exited"
    /\ IF port_listener = "none"
       THEN /\ port_listener' = "watch"
            /\ xt_pc' = [xt_pc EXCEPT !["watch"] = "accepting"]
       ELSE /\ port_listener' = port_listener
            /\ xt_pc' = [xt_pc EXCEPT !["watch"] = "ended"]
    /\ UNCHANGED <<svcVars, jobVars, daemonVars, wireVars, embedVars, x_in, x_res,
                   xt_in, relevant_pdbs, xt_peer, xt_response>>

\* lines 412, 489-491: TcpStream::connect("localhost:23685"); refused when
\* nobody listens: the message is printed and extract_one returns Ok
Connect ==
    /\ xt_pc["main"] = "connect"
    /\ xt_peer' = port_listener
    /\ xt_pc' = [xt_pc EXCEPT !["main"] = IF port_listener = "none" THEN "done" ELSE "send"]
    /\ UNCHANGED <<svcVars, jobVars, daemonVars, wireVars, embedVars, x_in, x_res,
                   xt_in, port_listener, relevant_pdbs, xt_response>>

\* line 415: send_message(&mut stream, Message::FindPdb(op.pdb_uuid))?
SendFindPdb ==
    /\ xt_pc["main"] = "send"
    /\ xt_pc' = [xt_pc EXCEPT !["main"] = "read"]
    /\ UNCHANGED <<svcVars, jobVars, daemonVars, wireVars, embedVars, x_in, x_res,
                   xt_in, port_listener, relevant_pdbs, xt_peer, xt_response>>

\* line 418, and the peer's handle_connection (lines 585-598 for the watch
\* thread's, the daemon's for the daemon): the lookup in the peer's map, the
\* answer, read_message
ReadResponse ==
    /\ xt_pc["main"] = "read"
    /\ LET pdb_db == IF xt_peer = "watch" THEN relevant_pdbs ELSE xt_in.daemon_pdbs
       IN  xt_response' = FoundPdb(xt_in.pdb_uuid, MapGet(pdb_db, xt_in.pdb_uuid))
    /\ xt_pc' = [xt_pc EXCEPT !["main"] = "done"]
    /\ UNCHANGED <<svcVars, jobVars, daemonVars, wireVars, embedVars, x_in, x_res,
                   xt_in, port_listener, relevant_pdbs, xt_peer>>

\* extract_one and main return: the process exits and takes the watch
\* thread and its listener with it
ProcessExit ==
    /\ xt_pc["main"] = "done"
    /\ xt_pc' = [xt_pc EXCEPT !["main"] = "exited"]
    /\ port_listener' = IF port_listener = "watch" THEN "none" ELSE port_listener
    /\ UNCHANGED <<svcVars, jobVars, daemonVars, wireVars, embedVars, x_in, x_res,
                   xt_in, relevant_pdbs, xt_peer, xt_response>>

NextThreads ==
    \/ SpawnWatch
    \/ WatchScan
    \/ WatchBind
    \/ Connect
    \/ SendFindPdb
    \/ ReadResponse
    \/ ProcessExit

InitExtract ==
    /\ x_in = NoInput
    /\ x_res = NotRun
    /\ InitThreadsOff

ExtractInputs ==
    [pdb_uuid : {"U1"}, file : {"a.c"}, nonce : NonceArgs, decode_keys : SeqsUpTo(KeyStrings, MaxKeys),
     config_ok : BOOLEAN, connected : BOOLEAN, response : Responses,
     container_ok : BOOLEAN, stream : Streams]

\* one invocation of `fts_pdbsrc extract_one --pdb-uuid U1 --file .. --nonce ..`
ExtractOne ==
    /\ x_in # NoInput
    /\ x_res = NotRun
    /\ x_res' = main_extract(x_in)
    /\ UNCHANGED <<svcVars, jobVars, daemonVars, wireVars, embedVars, threadVars, x_in>>

NextExtract == ExtractOne

\* ---- embed
\* the roots given to embed, in order, and the source files the container may
\* refer to: two of the same relative path under different roots, a third
\* file, and one outside every root
canonical_roots == <<"r1", "r2">>
Src(dir, name, text) == [dir |-> dir, name |-> name, text |-> text]
SrcA == Src("r1", "a.c", "A")
SrcB == Src("r2", "a.c", "B")
SrcC == Src("r1", "c.c", "C")
SrcX == Src("x", "d.c", "D")
Sources == {SrcA, SrcB, SrcC, SrcX}
RelPaths == {src.name : src \in Sources}

Plaintext == [mode |-> "Plaintext", key |-> ""]
EncryptWithRngKey == [mode |-> "EncryptWithRngKey", key |-> ""]
EncryptWithKey(key_hex) == [mode |-> "EncryptWithKey", key |-> key_hex]
EncryptModes == {Plaintext, EncryptWithRngKey, EncryptWithKey("K1"), EncryptWithKey(NotHex)}

NoDirective == [uuid |-> "", cmd_nonce |-> FALSE, rows |-> <<>>]

\* lines 222-246: the path relative to the first root the file lies under
UnderRoot(src) == \E r \in 1..Len(canonical_roots) : canonical_roots[r] = src.dir
RECURSIVE Qualifying(_)
Qualifying(refs) ==
    IF refs = <<>> THEN <<>>
    ELSE IF UnderRoot(Head(refs))
         THEN <<[raw_filepath |-> Head(refs), relpath |-> Head(refs).name]>> \o Qualifying(Tail(refs))
         ELSE Qualifying(Tail(refs))

InitEmbedOff ==
    /\ e_in = [encrypt_mode |-> Plaintext, refs |-> <<>>]
    /\ e_pc = "off"
    /\ filepaths = <<>>
    /\ cipher = ""
    /\ e_i = 1
    /\ nonces = [src \in Sources |-> ""]
    /\ draws = <<>>
    /\ streams = [rel \in RelPaths |-> NoStream]
    /\ srcsrv = NoDirective
    /\ tempfiles = {}
    /\ e_res = ""

InitEmbed ==
    /\ e_in \in [encrypt_mode : EncryptModes, refs : SeqsUpTo(Sources, MaxRefs)]
    /\ e_pc = "discover"
    /\ filepaths = <<>>
    /\ cipher = ""
    /\ e_i = 1
    /\ nonces = [src \in Sources |-> ""]
    /\ draws = <<>>
    /\ streams = [rel \in RelPaths |-> NoStream]
    /\ srcsrv = NoDirective
    /\ tempfiles = {}
    /\ e_res = ""

\* lines 195-253: enumerate the references, keep those under a root
Discover ==
    /\ e_pc = "discover"
    /\ filepaths' = Qualifying(e_in.refs)
    /\ e_pc' = "cipher"
    /\ UNCHANGED <<svcVars, jobVars, daemonVars, wireVars, extractVars,
                   e_in, cipher, e_i, nonces, draws, streams, srcsrv, tempfiles, e_res>>

\* lines 259-274: the cipher of the mode; key_rng is what the rng gives in
\* EncryptWithRngKey; hex::decode(key_hex)? returns the error of a key that
\* is no hex
MakeCipher(key_rng) ==
    /\ e_pc = "cipher"
    /\ IF e_in.encrypt_mode.mode = "EncryptWithKey" /\ e_in.encrypt_mode.key = NotHex
       THEN e_pc' = "done" /\ e_res' = "Err" /\ cipher' = cipher
       ELSE /\ e_pc' = "stage"
            /\ e_res' = e_res
            /\ cipher' = IF e_in.encrypt_mode.mode = "Plaintext" THEN ""
                         ELSE IF e_in.encrypt_mode.mode = "EncryptWithRngKey" THEN key_rng
                         ELSE e_in.encrypt_mode.key
    /\ UNCHANGED <<svcVars, jobVars, daemonVars, wireVars, extractVars,
                   e_in, filepaths, e_i, nonces, draws, streams, srcsrv, tempfiles>>

\* line 306: nonces.insert(*raw_filepath, hex::encode(nonce_bytes))
NonceOfFirstDraw(made, nonce) == IF made = <<>> THEN nonce ELSE made[1]
NonceForFile(made, nonce) == nonce

\* lines 715-729: run_command; Ok for exit status 0, else an error
run_command(tool_ok) == IF tool_ok THEN "Ok" ELSE "Err"

\* lines 280-327: one round of the loop over filepaths; nonce_bytes is what
\* the rng gives (line 294), tool_ok whether pdbstr exits with 0. The
\* ciphertext file is kept (line 303) and removed at line 325, after the `?`
\* of line 321
StageFile(nonce_bytes, tool_ok) ==
    /\ e_pc = "stage"
    /\ IF e_i > Len(filepaths)
       THEN /\ e_pc' = "directive"
            /\ UNCHANGED <<e_i, nonces, draws, streams, tempfiles, e_res>>
       ELSE LET raw_filepath == filepaths[e_i].raw_filepath
                relpath == filepaths[e_i].relpath
                nonce == NonceForFile(draws, nonce_bytes)
                stream_file == IF cipher = "" THEN Staged(raw_filepath.text)
                               ELSE Encrypt(cipher, nonce, raw_filepath.text)
                kept == IF cipher = "" THEN {} ELSE {relpath}
            IN  /\ e_i' = e_i + 1
                /\ IF cipher = ""
                   THEN UNCHANGED <<nonces, draws>>
                   ELSE /\ draws' = Append(draws, nonce_bytes)
                        /\ nonces' = [nonces EXCEPT ![raw_filepath] = nonce]
                /\ IF run_command(tool_ok) = "Ok"
                   THEN /\ streams' = [streams EXCEPT ![relpath] = stream_file]
                        /\ tempfiles' = tempfiles
                        /\ UNCHANGED <<e_pc, e_res>>
                   ELSE /\ e_pc' = "done" /\ e_res' = "Err"
                        /\ tempfiles' = tempfiles \cup kept
                        /\ streams' = streams
    /\ UNCHANGED <<svcVars, jobVars, daemonVars, wireVars, extractVars,
                   e_in, filepaths, cipher, srcsrv>>

\* lines 364-373: the rows of the file table; every row has four fields, the
\* fourth being nonces.get(raw_filepath).unwrap()
Rows == [i \in 1..Len(filepaths) |->
            [raw_filepath |-> filepaths[i].raw_filepath, relpath |-> filepaths[i].relpath,
             fields |-> 4, nonce |-> nonces[filepaths[i].raw_filepath]]]

\* lines 330-404: mint the identity, build srcsrv and write it; the unwrap of
\* line 371 panics on a path without an entry in nonces. SRCSRVCMD (line 357)
\* always ends in --nonce %var4%. The directive file is kept (line 380) and
\* removed at line 393, after the `?` of line 390
WriteDirective(uuid, tool_ok) ==
    /\ e_pc = "directive"
    /\ e_pc' = "done"
    /\ IF \E i \in 1..Len(filepaths) : nonces[filepaths[i].raw_filepath] = ""
       THEN e_res' = "Panic" /\ srcsrv' = srcsrv /\ tempfiles' = tempfiles
       ELSE IF run_command(tool_ok) = "Ok"
       THEN /\ e_res' = "Ok"
            /\ srcsrv' = [uuid |-> uuid, cmd_nonce |-> TRUE, rows |-> Rows]
            /\ tempfiles' = tempfiles
       ELSE /\ e_res' = "Err"
            /\ srcsrv' = srcsrv
            /\ tempfiles' = tempfiles \cup {"srcsrv"}
    /\ UNCHANGED <<svcVars, jobVars, daemonVars, wireVars, extractVars,
                   e_in, filepaths, cipher, e_i, nonces, draws, streams>>

\* SRCSRVCMD (line 357) run for row i of the directive: extract_one with the
\* emitted identity, the row's relative path and nonce, against a daemon
\* whose index holds the container
ExtractRow(i, decode_keys) ==
    /\ e_pc = "done" /\ e_res = "Ok"
    /\ x_res = NotRun
    /\ i \in 1..Len(srcsrv.rows)
    /\ LET in == [pdb_uuid |-> srcsrv.uuid, file |-> srcsrv.rows[i].relpath,
                  nonce |-> srcsrv.rows[i].nonce, decode_keys |-> decode_keys,
                  config_ok |-> TRUE, connected |-> TRUE,
                  response |-> FoundPdb(srcsrv.uuid, PdbA), container_ok |-> TRUE,
                  stream |-> streams[srcsrv.rows[i].relpath]]
       IN  /\ x_in' = in
           /\ x_res' = main_extract(in)
    /\ UNCHANGED <<svcVars, jobVars, daemonVars, wireVars, embedVars, threadVars>>

NextEmbed ==
    \/ Discover
    \/ \E key_rng \in Keys : MakeCipher(key_rng)
    \/ \E nonce_bytes \in Nonces, tool_ok \in BOOLEAN : StageFile(nonce_bytes, tool_ok)
    \/ \E uuid \in Uuids, tool_ok \in BOOLEAN : WriteDirective(uuid, tool_ok)
    \/ \E i \in 1..MaxRefs, decode_keys \in SeqsUpTo(Keys, MaxRowKeys) : ExtractRow(i, decode_keys)

InitCliOff == InitWire /\ InitExtract /\ InitEmbedOff

\* ---- the daemon's threads: the index lock, the log, the service status
\* run_service's thread, the listener thread it spawns, one connection
\* handler, one root watcher's thread and the config watcher's thread
Threads == {"main", "listener", "handler", "watcher", "config"}

LogLine(level, about) == [level |-> level, about |-> about]

\* the statements that read or write a socket, open or scan files, or write
\* the log file
IoStatements ==
    {"read_config", "find_pdbs", "bind", "read", "log_found", "send",
     "rm_log", "cw_log", "process_pdb_path", "cw_log_valid",
     "cfg_log", "cfg_read", "cfg_scan"}

InitSvcOff ==
    /\ svc_pc = [t \in Threads |-> "none"]
    /\ index_lock = "none"
    /\ log_file = {}
    /\ svc_status = "none"
    /\ shutdown_rx = 0
    /\ log_writer = "none"

InitService ==
    /\ svc_pc = [t \in Threads |-> IF t = "main" THEN "register" ELSE "none"]
    /\ index_lock = "none"
    /\ log_file = {}
    /\ svc_status = "none"
    /\ shutdown_rx = 0
    /\ log_writer = "none"

Goto(t, statement) == svc_pc' = [svc_pc EXCEPT ![t] = statement]

\* thread t is at the statement, in a process that has not exited
At(t, statement) == svc_pc[t] = statement /\ svc_pc["main"] # "returned"

\* Mutex::lock: taken when free
Lock(t) == index_lock = "none" /\ index_lock' = t
Unlock(t) == index_lock = t /\ index_lock' = "none"

\* lines 156-167: register the handler, report StartPending
ReportStartPending ==
    /\ svc_pc["main"] = "register"
    /\ svc_status' = "StartPending"
    /\ Goto("main", "read_config")
    /\ UNCHANGED <<jobVars, daemonVars, cliVars, log_writer, shutdown_rx, index_lock, log_file>>

\* lines 174, 127-129: read_config(&config_path)?; on Err run_service returns
\* it and my_service_main logs it
StartReadConfig(parsed) ==
    /\ svc_pc["main"] = "read_config"
    /\ IF parsed
       THEN Goto("main", "find_pdbs") /\ log_file' = log_file
       ELSE /\ Goto("main", "failed")
            /\ log_file' = log_file \cup {LogLine("Error", "run_service")}
    /\ UNCHANGED <<jobVars, daemonVars, cliVars, log_writer, shutdown_rx, index_lock, svc_status>>

\* lines 177-181: the log level, the first scan, the Mutex around it
StartFindPdbs ==
    /\ svc_pc["main"] = "find_pdbs"
    /\ Goto("main", "watch_paths")
    /\ UNCHANGED <<jobVars, daemonVars, cliVars, log_writer, shutdown_rx, index_lock, log_file, svc_status>>

\* lines 184, 342-408: watch_paths; a root that cannot be watched is logged
\* as a warning and left out
StartWatchPaths(watched) ==
    /\ svc_pc["main"] = "watch_paths"
    /\ svc_pc' = [svc_pc EXCEPT !["main"] = "config_watcher",
                                !["watcher"] = IF watched THEN "idle" ELSE "none"]
    /\ log_file' = IF watched THEN log_file
                   ELSE log_file \cup {LogLine("Warn", "watch_paths")}
    /\ UNCHANGED <<jobVars, daemonVars, cliVars, log_writer, shutdown_rx, index_lock, svc_status>>

\* lines 188-215: the watch on the config file
StartConfigWatcher ==
    /\ svc_pc["main"] = "config_watcher"
    /\ svc_pc' = [svc_pc EXCEPT !["main"] = "spawn", !["config"] = "idle"]
    /\ UNCHANGED <<jobVars, daemonVars, cliVars, log_writer, shutdown_rx, index_lock, log_file, svc_status>>

\* line 218: std::thread::spawn(move || accept_connections(pdbs))
SpawnListener ==
    /\ svc_pc["main"] = "spawn"
    /\ svc_pc' = [svc_pc EXCEPT !["main"] = "set_running", !["listener"] = "bind"]
    /\ UNCHANGED <<jobVars, daemonVars, cliVars, log_writer, shutdown_rx, index_lock, log_file, svc_status>>

\* lines 221-230: report Running, then poll the shutdown channel
ReportRunning ==
    /\ svc_pc["main"] = "set_running"
    /\ svc_status' = "Running"
    /\ Goto("main", "serving")
    /\ UNCHANGED <<jobVars, daemonVars, cliVars, log_writer, shutdown_rx, index_lock, log_file>>

\* line 293, in the listener thread: TcpListener::bind(..)?; on Err
\* accept_connections returns it to the thread's closure, which ends
Bind(port_free) ==
    /\ At("listener", "bind")
    /\ Goto("listener", IF port_free THEN "accepting" ELSE "ended")
    /\ UNCHANGED <<jobVars, daemonVars, cliVars, log_writer, shutdown_rx, index_lock, log_file, svc_status>>

\* lines 294-301: a connection comes in, its handler thread starts
AcceptConnection ==
    /\ At("listener", "accepting")
    /\ svc_pc["handler"] \in {"none", "closed"}
    /\ Goto("handler", "read")
    /\ UNCHANGED <<jobVars, daemonVars, cliVars, log_writer, shutdown_rx, index_lock, log_file, svc_status>>

\* lines 270-272, 287: read_message
HandlerRead(request) ==
    /\ At("handler", "read")
    /\ Goto("handler", IF request THEN "lookup" ELSE "closed")
    /\ UNCHANGED <<jobVars, daemonVars, cliVars, log_writer, shutdown_rx, index_lock, log_file, svc_status>>

\* line 275: pdb_db.lock().unwrap()
HandlerLock ==
    /\ At("handler", "lookup")
    /\ Lock("handler")
    /\ Goto("handler", "get")
    /\ UNCHANGED <<jobVars, daemonVars, cliVars, log_writer, shutdown_rx, log_file, svc_status>>

\* line 275: .get(&uuid).cloned(); the guard is a temporary of the statement
HandlerGet ==
    /\ At("handler", "get")
    /\ Unlock("handler")
    /\ Goto("handler", "log_found")
    /\ UNCHANGED <<jobVars, daemonVars, cliVars, log_writer, shutdown_rx, log_file, svc_status>>

\* lines 278, 282: log::info!
HandlerLog ==
    /\ At("handler", "log_found")
    /\ log_writer = "handler" /\ log_writer' = "none"
    /\ Goto("handler", "send")
    /\ UNCHANGED <<jobVars, daemonVars, cliVars, shutdown_rx, index_lock, log_file, svc_status>>

\* lines 279, 283: send_message(..)?
HandlerSend(sent_ok) ==
    /\ At("handler", "send")
    /\ Goto("handler", IF sent_ok THEN "read" ELSE "closed")
    /\ UNCHANGED <<jobVars, daemonVars, cliVars, log_writer, shutdown_rx, index_lock, log_file, svc_status>>

\* lines 351-362, 379-385: the watcher's callback starts on an event
WatcherEvent(kind, pdb) ==
    /\ At("watcher", "idle")
    /\ kind \in {"Remove", "Rename", "Create", "Write", "Chmod"}
    /\ Goto("watcher", IF ~pdb \/ kind = "Chmod" THEN "idle"
                       ELSE IF kind \in {"Remove", "Rename"} THEN "rm_lock"
                       ELSE "cw_log")
    /\ UNCHANGED <<jobVars, daemonVars, cliVars, log_writer, shutdown_rx, index_lock, log_file, svc_status>>

\* line 366: let mut pdbs = pdbs2.lock().unwrap(); the guard lives to the end
\* of the match arm
RemoveLock ==
    /\ At("watcher", "rm_lock")
    /\ Lock("watcher")
    /\ Goto("watcher", "rm_find")
    /\ UNCHANGED <<jobVars, daemonVars, cliVars, log_writer, shutdown_rx, log_file, svc_status>>

\* lines 367-371: find_map over the index; no key: the arm ends, the guard drops
RemoveFind(found) ==
    /\ At("watcher", "rm_find")
    /\ IF found
       THEN Goto("watcher", "rm_log") /\ index_lock' = index_lock
       ELSE Goto("watcher", "idle") /\ Unlock("watcher")
    /\ UNCHANGED <<jobVars, daemonVars, cliVars, log_writer, shutdown_rx, log_file, svc_status>>

\* line 372: log::info!("Detected deletion of ..", pdbs.get(&key))
RemoveLog ==
    /\ At("watcher", "rm_log")
    /\ log_writer = "watcher" /\ log_writer' = "none"
    /\ Goto("watcher", "rm_remove")
    /\ UNCHANGED <<jobVars, daemonVars, cliVars, shutdown_rx, index_lock, log_file, svc_status>>

\* lines 373-375: pdbs.remove(&key), the arm ends, the guard drops
RemoveUnlock ==
    /\ At("watcher", "rm_remove")
    /\ Unlock("watcher")
    /\ Goto("watcher", "idle")
    /\ UNCHANGED <<jobVars, daemonVars, cliVars, log_writer, shutdown_rx, log_file, svc_status>>

\* line 388: log::info!("Detected creation or modification ..")
CreateLog ==
    /\ At("watcher", "cw_log")
    /\ log_writer = "watcher" /\ log_writer' = "none"
    /\ Goto("watcher", "process_pdb_path")
    /\ UNCHANGED <<jobVars, daemonVars, cliVars, shutdown_rx, index_lock, log_file, svc_status>>

\* line 389: process_pdb_path(path) opens and reads the file
CreateProcess(valid) ==
    /\ At("watcher", "process_pdb_path")
    /\ Goto("watcher", IF valid THEN "cw_log_valid" ELSE "idle")
    /\ UNCHANGED <<jobVars, daemonVars, cliVars, log_writer, shutdown_rx, index_lock, log_file, svc_status>>

\* line 390: log::info!("Found valid PDB ..")
CreateLogValid ==
    /\ At("watcher", "cw_log_valid")
    /\ log_writer = "watcher" /\ log_writer' = "none"
    /\ Goto("watcher", "cw_lock")
    /\ UNCHANGED <<jobVars, daemonVars, cliVars, shutdown_rx, index_lock, log_file, svc_status>>

\* line 391: pdbs2.lock().unwrap()
CreateLock ==
    /\ At("watcher", "cw_lock")
    /\ Lock("watcher")
    /\ Goto("watcher", "cw_insert")
    /\ UNCHANGED <<jobVars, daemonVars, cliVars, log_writer, shutdown_rx, log_file, svc_status>>

\* line 391: .insert(uuid, path); the guard is a temporary of the statement
CreateInsert ==
    /\ At("watcher", "cw_insert")
    /\ Unlock("watcher")
    /\ Goto("watcher", "idle")
    /\ UNCHANGED <<jobVars, daemonVars, cliVars, log_writer, shutdown_rx, log_file, svc_status>>

\* lines 191-193: the config watcher's callback starts on a Write event
ConfigEvent(kind) ==
    /\ At("config", "idle")
    /\ kind \in {"Write", "Chmod"}
    /\ Goto("config", IF kind = "Write" THEN "cfg_log" ELSE "idle")
    /\ UNCHANGED <<jobVars, daemonVars, cliVars, log_writer, shutdown_rx, index_lock, log_file, svc_status>>

\* line 194: log::info!("Config file [..] changed. Re-parsing log.")
ConfigLog ==
    /\ At("config", "cfg_log")
    /\ log_writer = "config" /\ log_writer' = "none"
    /\ Goto("config", "cfg_read")
    /\ UNCHANGED <<jobVars, daemonVars, cliVars, shutdown_rx, index_lock, log_file, svc_status>>

\* lines 197, 410-419: read_config(&path)?; read_config logs info lines only;
\* on Err the inner closure returns it, and `let _ =` at line 192 drops it
ConfigRead(parsed) ==
    /\ At("config", "cfg_read")
    /\ IF parsed
       THEN Goto("config", "cfg_rewatch") /\ log_file' = log_file
       ELSE Goto("config", "idle") /\ log_file' = log_file
    /\ UNCHANGED <<jobVars, daemonVars, cliVars, log_writer, shutdown_rx, index_lock, svc_status>>

\* lines 200-206: the log level, path_watchers.clear(), watch_paths; a running
\* callback of a dropped watcher runs on
ConfigRewatch(watched) ==
    /\ At("config", "cfg_rewatch")
    /\ svc_pc' = [svc_pc EXCEPT !["config"] = "cfg_scan",
                                !["watcher"] = IF watched /\ @ = "none" THEN "idle" ELSE @]
    /\ log_file' = IF watched THEN log_file
                   ELSE log_file \cup {LogLine("Warn", "watch_paths")}
    /\ UNCHANGED <<jobVars, daemonVars, cliVars, log_writer, shutdown_rx, index_lock, svc_status>>

\* line 209, the assigned value: find_pdbs(&new_config.paths), evaluated
\* before the assignee
ConfigScan ==
    /\ At("config", "cfg_scan")
    /\ Goto("config", "cfg_lock")
    /\ UNCHANGED <<jobVars, daemonVars, cliVars, log_writer, shutdown_rx, index_lock, log_file, svc_status>>

\* line 209, the assignee: pdbs2.lock().unwrap()
ConfigLock ==
    /\ At("config", "cfg_lock")
    /\ Lock("config")
    /\ Goto("config", "cfg_assign")
    /\ UNCHANGED <<jobVars, daemonVars, cliVars, log_writer, shutdown_rx, log_file, svc_status>>

\* line 209: the assignment; the guard is a temporary of the statement
ConfigAssign ==
    /\ At("config", "cfg_assign")
    /\ Unlock("config")
    /\ Goto("config", "idle")
    /\ UNCHANGED <<jobVars, daemonVars, cliVars, log_writer, shutdown_rx, log_file, svc_status>>

\* lines 137-151: the control handler on ServiceControl::Stop:
\* shutdown_tx.send(()); the control manager sends Stop to a service that has
\* registered its handler and has not stopped
ControlStop ==
    /\ svc_pc["main"] \notin {"register", "failed", "returned"}
    /\ shutdown_rx = 0
    /\ shutdown_rx' = 1
    /\ UNCHANGED <<jobVars, daemonVars, cliVars, log_writer, svc_pc, index_lock, log_file, svc_status>>

\* lines 232-241: recv_timeout(1 s) returns Ok: break; a Timeout leaves the
\* loop where it is
PollShutdown ==
    /\ svc_pc["main"] = "serving"
    /\ shutdown_rx > 0
    /\ shutdown_rx' = shutdown_rx - 1
    /\ Goto("main", "set_stopped")
    /\ UNCHANGED <<jobVars, daemonVars, cliVars, log_writer, index_lock, log_file, svc_status>>

\* lines 245-255: report Stopped, return Ok(()); the dispatcher returns and
\* the process exits
ReportStopped ==
    /\ svc_pc["main"] = "set_stopped"
    /\ svc_status' = "Stopped"
    /\ Goto("main", "returned")
    /\ UNCHANGED <<jobVars, daemonVars, cliVars, log_writer, shutdown_rx, index_lock, log_file>>

\* simplelog's WriteLogger::log: the Mutex around the log file is taken for
\* the write of one line; a thread at a log statement waits for it
LogStatements == {"log_found", "rm_log", "cw_log", "cw_log_valid", "cfg_log"}

WriteLoggerLock(t) ==
    /\ svc_pc[t] \in LogStatements /\ svc_pc["main"] # "returned"
    /\ log_writer = "none"
    /\ log_writer' = t
    /\ UNCHANGED <<jobVars, daemonVars, cliVars, svc_pc, index_lock, log_file, svc_status, shutdown_rx>>

NextService ==
    \/ ReportStartPending
    \/ \E parsed \in BOOLEAN : StartReadConfig(parsed)
    \/ StartFindPdbs
    \/ \E watched \in BOOLEAN : StartWatchPaths(watched)
    \/ StartConfigWatcher
    \/ SpawnListener
    \/ ReportRunning
    \/ \E port_free \in BOOLEAN : Bind(port_free)
    \/ AcceptConnection
    \/ \E request \in BOOLEAN : HandlerRead(request)
    \/ HandlerLock
    \/ HandlerGet
    \/ HandlerLog
    \/ \E sent_ok \in BOOLEAN : HandlerSend(sent_ok)
    \/ \E kind \in {"Remove", "Create", "Chmod"} : \E pdb \in BOOLEAN : WatcherEvent(kind, pdb)
    \/ RemoveLock
    \/ \E found \in BOOLEAN : RemoveFind(found)
    \/ RemoveLog
    \/ RemoveUnlock
    \/ CreateLog
    \/ \E valid \in BOOLEAN : CreateProcess(valid)
    \/ CreateLogValid
    \/ CreateLock
    \/ CreateInsert
    \/ \E kind \in {"Write", "Chmod"} : ConfigEvent(kind)
    \/ ConfigLog
    \/ \E parsed \in BOOLEAN : ConfigRead(parsed)
    \/ \E watched \in BOOLEAN : ConfigRewatch(watched)
    \/ ConfigScan
    \/ ConfigLock
    \/ ConfigAssign
    \/ ControlStop
    \/ PollShutdown
    \/ ReportStopped
    \/ \E t \in Threads : WriteLoggerLock(t)

vars == <<jobVars, daemonVars, svcVars, cliVars>>

InitIndex ==
    /\ InitJob /\ initial = <<>> /\ num_workers = 1
    /\ InitIndexPart(EmptyTree) /\ InitConnPart /\ InitSvcOff /\ InitCliOff
    /\ env_left = MaxEvents

SpecIndex == InitIndex /\ [][NextIndex]_vars

SpecWatch == InitIndex /\ [][NextWatch]_vars

InitServe ==
    /\ InitJob /\ initial = <<>> /\ num_workers = 1
    /\ InitIndexPart(OneContainer) /\ InitConnPart /\ InitSvcOff /\ InitCliOff
    /\ env_left = ServeEvents

SpecServe == InitServe /\ [][NextServe]_vars

InitDaemonOff ==
    /\ InitIndexPart(EmptyTree) /\ InitConnPart /\ InitSvcOff
    /\ env_left = 0

InitServiceRun ==
    /\ InitJob /\ initial = <<>> /\ num_workers = 1
    /\ InitIndexPart(EmptyTree) /\ InitConnPart /\ InitService /\ InitCliOff
    /\ env_left = 0

SpecService == InitServiceRun /\ [][NextService]_vars

InitWireRun ==
    /\ InitJob /\ initial = <<>> /\ num_workers = 1
    /\ InitDaemonOff /\ InitWire /\ InitExtract /\ InitEmbedOff

InitEmbedRun ==
    /\ InitJob /\ initial = <<>> /\ num_workers = 1
    /\ InitDaemonOff /\ InitWire /\ InitExtract /\ InitEmbed

SpecEmbed == InitEmbedRun /\ [][NextEmbed]_vars

InitExtractRun ==
    /\ InitJob /\ initial = <<>> /\ num_workers = 1
    /\ InitDaemonOff /\ InitWire /\ InitEmbedOff
    /\ x_in \in ExtractInputs
    /\ x_res = NotRun
    /\ InitThreadsOff

InitThreadsRun ==
    /\ InitJob /\ initial = <<>> /\ num_workers = 1
    /\ InitDaemonOff /\ InitWire /\ InitEmbedOff
    /\ x_in = NoInput
    /\ x_res = NotRun
    /\ InitThreads

SpecThreads == InitThreadsRun /\ [][NextThreads]_vars

SpecExtract == InitExtractRun /\ [][NextExtract]_vars

SpecWire == InitWireRun /\ [][NextWire]_vars

InitRun == InitJob /\ InitDaemonOff /\ InitCliOff

SpecJob == InitRun /\ [][NextJob]_vars

\* The worker threads are OS threads: each one that can step eventually does
\* (weak fairness), and a steal that can succeed again and again is not lost
\* to a Retry every time (strong fairness of the successful steals).
InitJobFair ==
    /\ initial \in {s \in SeedLists : JobCount(s) <= FairJobs}
    /\ num_workers \in 1..(MaxWorkers + 1)
    /\ injector = initial
    /\ worker_queue = [w \in WorkerIds |-> <<>>]
    /\ active_count = 0
    /\ wpc = [w \in WorkerIds |-> IF w <= num_workers THEN "take" ELSE "unused"]
    /\ witem = [w \in WorkerIds |-> NoItem]
    /\ wround = [w \in WorkerIds |-> [idx |-> 0, retry |-> FALSE]]
    /\ worker_results = [w \in WorkerIds |-> <<>>]
    /\ result = NotReturned
    /\ executed = [v \in 0..MaxJobs |-> 0]
    /\ InitDaemonOff /\ InitCliOff

FairJob ==
    /\ \A w \in WorkerIds : WF_vars(WorkerStep(w))
    /\ \A w \in WorkerIds : SF_vars(InjectSuccess(w))
    /\ \A w \in WorkerIds : SF_vars(StealSuccess(w))
    /\ WF_vars(JoinAll)

SpecJobFair ==
    InitJobFair /\ [][NextJob]_vars /\ FairJob

Returned == result # NotReturned
AllDone == \A w \in Workers : wpc[w] = "done"
SomePanic == Panicked # {}

\* C3: termination. In a run without a panic every worker eventually leaves
\* its loop and run_recursive_job returns.
C3_Terminates == <>(SomePanic \/ (AllDone /\ Returned))

\* C2: for the recursive test job, what run_recursive_job returns sums to the
\* sum over the seeds s of s*(s+1)/2, whatever the worker count and the
\* interleaving (no job panicking).
C2_SumMatches ==
    (Returned /\ ~SomePanic) => SumSeq(result) = instant_sums(initial)

C2_Witness ==
    /\ Returned /\ ~SomePanic
    /\ num_workers = 2
    /\ Len(initial) >= 2
    /\ worker_results[1] # <<>> /\ worker_results[2] # <<>>
    /\ SumSeq(result) = instant_sums(initial)

\* C4: panic safety. After a job panicked the other workers still terminate
\* and run_recursive_job returns; what it returns holds every output of the
\* workers that did not fail; the failed worker holds no count of the active
\* counter.
NonFailedOutputs == JoinFrom(1, num_workers, [w \in WorkerIds |-> IF wpc[w] = "panicked" THEN "panicked" ELSE "done"], worker_results)

C4_PanicSafe ==
    /\ [](Returned => result = NonFailedOutputs)
    /\ [](active_count = Cardinality({w \in Workers : wpc[w] = "drop"}))
    /\ (SomePanic ~> Returned)

\* C1: index consistency. Once the watchers have handled every event of a
\* sequence of create / modify / delete events (nothing waiting, no callback
\* running), the index holds exactly the containers that exist and validate:
\* every entry's path is an existing compatible container carrying the entry's
\* identity, and every existing compatible container's identity is a key.
C1_IndexConsistent ==
    (\A r \in Roots : pending[r] = <<>> /\ callback[r] = Idle) =>
        /\ \A u \in Uuids : pdbs[u] # NoPath => (pdbs[u].ext = "pdb" /\ fs[pdbs[u]] = u)
        /\ \A p \in Paths : (p.ext = "pdb" /\ fs[p] \in Uuids) => pdbs[fs[p]] # NoPath

\* C5: lookup answer. The handler that read FindPdb(U) holds the path the
\* index maps U to at that step (none exactly when U is no key then); the one
\* response it writes for the request is FoundPdb(U, that path); between the
\* request and its response nothing is written on the connection.
C5_LookupAnswer ==
    /\ [][\A c \in Conns :
            /\ (conn_pc[c] = "open" /\ conn_pc'[c] = "send") =>
                  /\ conn_req'[c] \in Requests
                  /\ conn_found'[c] = pdbs[conn_req'[c].uuid]
                  /\ (conn_found'[c] = NoPath) <=> (\A p \in Paths : pdbs[conn_req'[c].uuid] # p)
                  /\ conn_served'[c] = conn_served[c]
            /\ (conn_served'[c] # conn_served[c] \/ conn_out'[c] \notin {conn_out[c], NoMessage}) =>
                  /\ conn_pc[c] = "send"
                  /\ conn_served'[c] = conn_served[c] + 1
                  /\ conn_out'[c] = [type |-> "FoundPdb", uuid |-> conn_req[c].uuid, path |-> conn_found[c]]
         ]_vars
    /\ [](\A c \in Conns : conn_pc[c] = "send" => conn_out[c] = NoMessage)

C5_Witness ==
    /\ conn_out["c1"] = [type |-> "FoundPdb", uuid |-> "U1", path |-> PdbA]
    /\ pdbs["U1"] = NoPath
    /\ conn_out["c2"] = [type |-> "FoundPdb", uuid |-> "U2", path |-> NoPath]
    /\ conn_served["c1"] = 2

\* C6: a protocol error is local to its connection. The step in which a
\* handler stops on an error closes that connection only: the index, every
\* other connection and the listener are as before; and whenever a connection
\* is closed, the listener can accept and every other handler can go on.
C6_ErrorsLocal ==
    /\ [][\A c \in Conns : (conn_pc[c] # "closed" /\ conn_pc'[c] = "closed") =>
            /\ pdbs' = pdbs
            /\ listening' = TRUE
            /\ \A d \in Conns \ {c} :
                  /\ conn_pc'[d] = conn_pc[d]
                  /\ conn_req'[d] = conn_req[d]
                  /\ conn_found'[d] = conn_found[d]
                  /\ conn_out'[d] = conn_out[d]
                  /\ conn_served'[d] = conn_served[d]
         ]_vars
    /\ [](\A c \in Conns : conn_pc[c] = "closed" =>
            \A d \in Conns \ {c} :
                /\ conn_pc[d] = "none" => ENABLED Accept(d)
                /\ (conn_pc[d] = "open" /\ conn_served[d] < MaxRequests) =>
                       \A m \in Requests : ENABLED HandleFindPdb(d, m)
                /\ conn_pc[d] = "send" => ENABLED SendFoundPdb(d))

C6_Witness ==
    /\ conn_pc["c1"] = "closed" /\ conn_served["c1"] = 0 /\ conn_req["c1"] = NoMessage
    /\ conn_pc["c2"] = "open" /\ conn_served["c2"] = MaxRequests
    /\ pdbs["U1"] = PdbA
    /\ listening

\* C7: a failed reload changes nothing. The step that handles a Write event
\* of the configuration file while the file does not parse leaves the index,
\* the watchers (their waiting events and running callbacks too), the log
\* level and the configuration in use as they were.
C7_FailedReload ==
    [][(/\ reload_pc = "idle"
        /\ cfg_pending # <<>>
        /\ Head(cfg_pending) = "Write"
        /\ config_file = ConfigUnparsable
        /\ cfg_pending' = Tail(cfg_pending))
       => /\ pdbs' = pdbs
          /\ path_watchers' = path_watchers
          /\ pending' = pending
          /\ callback' = callback
          /\ log_level' = log_level
          /\ config' = config
          /\ reload_pc' = "idle"]_vars

C7_Witness ==
    /\ config_file = ConfigUnparsable
    /\ cfg_pending = <<>>
    /\ reload_pc = "idle"
    /\ config = ConfigBoth /\ log_level = "Info"
    /\ path_watchers = Roots
    /\ pdbs["U1"] = PdbA

\* C8: a successful reload replaces the index wholesale. Once a configuration
\* change has been handled to its end, no entry of the index lies under a
\* root that is not in the configuration in use (and none can be added there).
C8_ReloadReplaces ==
    (reload_pc = "idle" /\ cfg_pending = <<>>) =>
        \A u \in Uuids : pdbs[u] # NoPath => pdbs[u].root \in SeqRange(config.paths)

\* C9: upsert on create/modify. Handling a Create or Write event validates
\* the file: a path with the container extension whose file is a compatible
\* container of identity U goes on to the insert, which maps U to that path
\* whatever U was mapped to before and touches no other entry; any other
\* event inserts nothing.
C9_Upsert ==
    [][\A r \in Roots :
        /\ (/\ r \in path_watchers /\ callback[r] = Idle /\ pending[r] # <<>>
            /\ Head(pending[r]).kind \in {"Create", "Write"}
            /\ pending'[r] = Tail(pending[r])
            /\ reload_pc' = reload_pc)
           => LET path == Head(pending[r]).path IN
                /\ pdbs' = pdbs
                /\ callback'[r] = IF path.ext = "pdb" /\ fs[path] \in Uuids
                                  THEN [uuid |-> fs[path], path |-> path]
                                  ELSE Idle
        /\ (callback[r] # Idle /\ callback'[r] = Idle /\ reload_pc' = reload_pc)
           => pdbs' = [u \in Uuids |-> IF u = callback[r].uuid THEN callback[r].path ELSE pdbs[u]]
      ]_vars

C9_Witness ==
    /\ \A r \in Roots : pending[r] = <<>> /\ callback[r] = Idle
    /\ fs[PdbA] = "U1" /\ fs[PdbC] = "U1"
    /\ env_left = MaxEvents - 2
    /\ pdbs["U1"] = PdbC

C33_PathInjective ==
    \A u, v \in Uuids : (pdbs[u] # NoPath /\ pdbs[u] = pdbs[v]) => u = v

\* C20: active-counter coverage. In every reachable state the counter is at
\* least the number of workers inside their find-task/execute loop (between
\* the take_token of line 47 and the is_zero of line 59); so it is not zero
\* while a worker executes a job.
C20_CounterCovers ==
    /\ active_count >= Cardinality({w \in Workers :
                          wpc[w] \in {"drop", "pop", "inject", "steal", "exec"}})
    /\ (\E w \in Workers : wpc[w] = "exec") => active_count > 0

C32_PrefixIsLength ==
    \A i \in 1..Len(wire) :
        wire[i].kind = "size" =>
            /\ i < Len(wire)
            /\ wire[i + 1].kind = "body"
            /\ from_ne_bytes(wire[i].bytes) = wire[i + 1].left


\* ---- extract_one: properties

\* the invocation has run, and got as far as the named stream of the
\* container the daemon pointed at
ReachedStream ==
    /\ x_res # NotRun
    /\ x_in.config_ok /\ x_in.nonce # NoNonceArg /\ x_in.connected
    /\ x_in.response = FoundPdb(x_in.pdb_uuid, PdbA)
    /\ x_in.container_ok /\ x_in.stream # NoStream

HoldsKey(decode_keys, key) == \E i \in 1..Len(decode_keys) : decode_keys[i] = key

\* C12: with a list of decode keys (no entry of a length other than 32
\* bytes) and a 12-byte nonce, extraction succeeds exactly when the list holds
\* the key the stream was encrypted with and the nonce is the one it was
\* encrypted with, and then writes that plaintext; otherwise it returns an
\* error (exit code 1) and writes no output file.
C12_DecryptFallback ==
    (ReachedStream /\ x_in.nonce \in Nonces /\ ~HoldsKey(x_in.decode_keys, ShortHex)) =>
        IF HoldsKey(x_in.decode_keys, x_in.stream.key) /\ x_in.nonce = x_in.stream.nonce
        THEN x_res.result = "Ok" /\ x_res.out = Staged(x_in.stream.plain) /\ x_res.exit = 0
        ELSE x_res.result = "Err" /\ x_res.out = NoStream /\ x_res.exit = 1

C12_Witness ==
    /\ ReachedStream
    /\ x_in.decode_keys = <<"K1", "K2", "K3">>
    /\ x_in.stream = Encrypt("K2", "N1", "A") /\ x_in.nonce = "N1"
    /\ x_res.result = "Ok" /\ x_res.out = Staged("A")

\* C34: whatever strings the decode-key list holds, an extraction with a
\* 12-byte nonce that reached the stream does not panic: it succeeds when the
\* list holds the key of the stream and the nonce is the stream's, and
\* otherwise returns the error of the exhausted list.
C34_MalformedKeySkipped ==
    (ReachedStream /\ x_in.nonce \in Nonces) =>
        IF HoldsKey(x_in.decode_keys, x_in.stream.key) /\ x_in.nonce = x_in.stream.nonce
        THEN x_res.result = "Ok" /\ x_res.out = Staged(x_in.stream.plain)
        ELSE x_res.result = "Err" /\ x_res.exit = 1

\* C16: a locate response without a path, or with another identity than the
\* requested one, makes extract_one return an error to its caller, with no
\* container opened and no output file written.
C16_BadResponseRejected ==
    ( /\ x_res # NotRun
      /\ x_in.config_ok /\ x_in.nonce # NoNonceArg /\ x_in.connected
      /\ x_in.response.type = "FoundPdb"
      /\ (x_in.response.path = NoPath \/ x_in.response.uuid # x_in.pdb_uuid) ) =>
        x_res.result = "Err" /\ ~x_res.opened /\ x_res.out = NoStream

\* C17: exit code 0 only if the operation succeeded (the output file was
\* written); every failure gives exit code 1 and a message on standard error.
C17_ExitReflectsOutcome ==
    x_res # NotRun =>
        /\ x_res.exit = 0 => x_res.out # NoStream
        /\ x_res.out = NoStream => (x_res.exit = 1 /\ x_res.stderr)

\* C19: invoked without a nonce argument, extract_one writes the bytes of the
\* named stream to the output file unchanged.
C19_NoNonceCopies ==
    ( /\ x_res # NotRun
      /\ x_in.nonce = NoNonceArg
      /\ x_in.config_ok /\ x_in.connected
      /\ x_in.response = FoundPdb(x_in.pdb_uuid, PdbA)
      /\ x_in.container_ok /\ x_in.stream # NoStream ) =>
        x_res.result = "Ok" /\ x_res.out = x_in.stream


\* ---- embed: properties

\* the rows of the directive that the last extract_one invocation was made for
RowsExtracted ==
    {i \in 1..Len(srcsrv.rows) :
        srcsrv.rows[i].relpath = x_in.file /\ srcsrv.rows[i].nonce = x_in.nonce}

\* C13: after an embed with an explicit key K, extract_one run for a row of
\* the directive (emitted identity, the row's relative path and nonce) with a
\* decode-key list holding K, against a daemon that knows the container,
\* writes the original bytes of that row's source file.
C13_RoundTrip ==
    ( /\ e_pc = "done" /\ e_res = "Ok" /\ x_res # NotRun
      /\ e_in.encrypt_mode.mode = "EncryptWithKey"
      /\ HoldsKey(x_in.decode_keys, e_in.encrypt_mode.key) ) =>
        \A i \in RowsExtracted :
            x_res.result = "Ok" /\ x_res.out = Staged(srcsrv.rows[i].raw_filepath.text)

\* C14: when no referenced source file lies under a root, embed ends with an
\* error and has written neither a content stream nor the directive stream.
C14_AbortsOnNoFiles ==
    (e_pc = "done" /\ filepaths = <<>>) =>
        /\ e_res = "Err"
        /\ srcsrv = NoDirective
        /\ \A rel \in RelPaths : streams[rel] = NoStream

\* C15: an embed that encrypts has a nonce for every embedded file and writes a
\* 4-field row for each; an embed in Plaintext mode completes successfully,
\* has no nonce, stages original bytes and writes only 3-field rows.
C15_NonceMatchesMode ==
    e_pc = "done" =>
        /\ (cipher # "" /\ e_res = "Ok") =>
              /\ \A i \in 1..Len(filepaths) : nonces[filepaths[i].raw_filepath] # ""
              /\ Len(srcsrv.rows) = Len(filepaths)
              /\ \A i \in 1..Len(srcsrv.rows) :
                    srcsrv.rows[i].fields = 4 /\ srcsrv.rows[i].nonce # ""
        /\ e_in.encrypt_mode = Plaintext =>
              /\ e_res = "Ok"
              /\ \A src \in Sources : nonces[src] = ""
              /\ \A i \in 1..Len(filepaths) :
                    \E j \in 1..Len(filepaths) :
                        /\ filepaths[j].relpath = filepaths[i].relpath
                        /\ streams[filepaths[i].relpath] = Staged(filepaths[j].raw_filepath.text)
              /\ Len(srcsrv.rows) = Len(filepaths)
              /\ \A i \in 1..Len(srcsrv.rows) : srcsrv.rows[i].fields = 3

\* the last round of the loop, among those done, that wrote the path / the
\* stream of round i
LastOfPath(i) ==
    CHOOSE j \in i..(e_i - 1) :
        /\ filepaths[j].raw_filepath = filepaths[i].raw_filepath
        /\ \A k \in (j + 1)..(e_i - 1) : filepaths[k].raw_filepath # filepaths[i].raw_filepath
LastOfStream(i) ==
    CHOOSE j \in i..(e_i - 1) :
        /\ filepaths[j].relpath = filepaths[i].relpath
        /\ \A k \in (j + 1)..(e_i - 1) : filepaths[k].relpath # filepaths[i].relpath

C35_RowsAgreeWithStreams ==
    (e_pc = "done" /\ e_res = "Ok") =>
        \A i \in 1..Len(srcsrv.rows) :
            streams[srcsrv.rows[i].relpath] =
                IF cipher = "" THEN Staged(srcsrv.rows[i].raw_filepath.text)
                ELSE Encrypt(cipher, srcsrv.rows[i].nonce, srcsrv.rows[i].raw_filepath.text)

\* C29: the recovery command of a written directive holds the nonce
\* placeholder %var4% exactly when some row of the directive has a fourth
\* field.
C29_PlaceholderIffNonceRow ==
    srcsrv # NoDirective =>
        (srcsrv.cmd_nonce <=> \E i \in 1..Len(srcsrv.rows) : srcsrv.rows[i].fields = 4)

\* C30: when the stream tool fails on a write, embed ends with an error, the
\* failed stream and the directive are not written, and no temporary file of
\* embed is left on disk.
C30_ToolFailureCleansUp ==
    (e_pc = "done" /\ e_res = "Err") =>
        /\ srcsrv = NoDirective
        /\ tempfiles = {}


\* ---- run_recursive_job: the worker loop and find_task

Seeking(w) == wpc[w] \in {"inject", "steal"}
Holding(w) == wpc[w] = "exec" \/ worker_queue[w] # <<>>

\* C21: once a worker has left its loop, the overflow queue and every
\* worker's queue are empty and no worker is executing a job (a worker breaks
\* only when the whole pool is out of work, and work comes only from jobs).
C21_ExitOnlyWhenIdle ==
    (\E w \in Workers : wpc[w] = "done") =>
        /\ injector = <<>>
        /\ \A v \in Workers : ~Holding(v)

\* how often a value has to run: once for every seed that is at least it
ExpectedRuns(v) == Cardinality({i \in 1..Len(initial) : initial[i] >= v})
Occurrences(s, v) == Cardinality({i \in 1..Len(s) : s[i] = v})

\* C22: in a run without a panic, when run_recursive_job has returned every
\* seeded and every enqueued job has run exactly once, every worker thread
\* has ended with nothing left in any queue, and the returned collection
\* holds every output exactly once.
C22_ExactlyOnce ==
    (Returned /\ ~SomePanic) =>
        /\ \A v \in 0..MaxJobs : executed[v] = ExpectedRuns(v)
        /\ AllDone
        /\ injector = <<>> /\ \A w \in Workers : worker_queue[w] = <<>> /\ witem[w] = NoItem
        /\ \A v \in 1..MaxJobs : Occurrences(result, v) = ExpectedRuns(v)
        /\ Occurrences(result, 0) = 0

C22_Witness ==
    /\ Returned /\ ~SomePanic
    /\ num_workers = 2
    /\ initial = <<1, 1>>
    /\ worker_results[1] # <<>> /\ worker_results[2] # <<>>
    /\ executed[0] = 2 /\ executed[1] = 2

\* one step of worker w inside find_task keeps to the order: the newest item
\* of the own deque if there is one; else the injector; then the stealers in
\* turn; a Retry is remembered for the round; None (on to is_zero) only after
\* the last stealer with every answer of the round Empty; after a Retry the
\* round starts again
SeekStep(w) ==
    /\ (wpc[w] = "pop" /\ wpc'[w] # "pop") =>
          IF worker_queue[w] # <<>>
          THEN /\ wpc'[w] = "exec"
               /\ witem'[w] = worker_queue[w][Len(worker_queue[w])]
               /\ worker_queue'[w] = SubSeq(worker_queue[w], 1, Len(worker_queue[w]) - 1)
               /\ injector' = injector
          ELSE wpc'[w] = "inject"
    /\ Seeking(w) => worker_queue[w] = <<>>
    /\ (wpc[w] = "inject" /\ wpc'[w] = "steal") =>
          /\ wround'[w].idx = NextStealer(w, 0)
          /\ wround'[w].retry = (injector # <<>>)
    /\ (wpc[w] = "steal" /\ wpc'[w] = "steal" /\ wround'[w] # wround[w]) =>
          /\ wround'[w].idx = NextStealer(w, wround[w].idx)
          /\ wround'[w].retry = (wround[w].retry \/ worker_queue[wround[w].idx] # <<>>)
    /\ (Seeking(w) /\ wpc'[w] = "check") =>
          /\ injector = <<>>
          /\ wpc[w] = "steal" => (~wround[w].retry /\ worker_queue[wround[w].idx] = <<>>)
          /\ NextStealer(w, IF wpc[w] = "steal" THEN wround[w].idx ELSE 0) > num_workers
    /\ (wpc[w] = "steal" /\ wpc'[w] = "inject") =>
          /\ wround[w].retry \/ worker_queue[wround[w].idx] # <<>>
          /\ NextStealer(w, wround[w].idx) > num_workers
    /\ wpc'[w] = "check" => Seeking(w) \/ wpc[w] = "check"
    /\ wpc'[w] = "steal" => Seeking(w)

\* C23: find_task takes the most recently pushed job of the worker's own
\* queue while there is one, then asks the overflow queue, then the other
\* workers' queues; it gives 'no work' only after a round of definitive empty
\* answers, and starts the round again after a transient retry without a
\* success.
C23_SeekOrder == [][\A w \in Workers : SeekStep(w)]_vars

C23_Witness ==
    \E w \in Workers :
        /\ wpc[w] = "steal" /\ wround[w].retry
        /\ worker_queue[w] = <<>>
        /\ \E v \in Workers \ {w} : Len(worker_queue[v]) >= 2


\* ---- accept_connections: one connection as a session

\* C24: on one connection the handler reads a request and sends its response
\* in turn, as often as the peer asks: each response is sent for the request
\* read just before it and counts one, after a response the handler is
\* reading again, and it ends only on what it read or on a failed send, never
\* after a response.
C24_PersistentSession ==
    /\ [][\A c \in Conns :
            /\ (conn_pc[c] = "open" /\ conn_pc'[c] = "send") =>
                  /\ conn_req'[c] \in Requests
                  /\ conn_served'[c] = conn_served[c]
            /\ conn_served'[c] # conn_served[c] =>
                  /\ conn_pc[c] = "send" /\ conn_pc'[c] = "open"
                  /\ conn_served'[c] = conn_served[c] + 1
                  /\ conn_out'[c] = FoundPdb(conn_req[c].uuid, conn_found[c])
                  /\ conn_req'[c] = conn_req[c]
            /\ (conn_pc[c] # "closed" /\ conn_pc'[c] = "closed") =>
                  /\ conn_served'[c] = conn_served[c]
                  /\ conn_out'[c] = conn_out[c]
         ]_vars
    /\ [](\A c \in Conns :
            (conn_pc[c] = "open" /\ conn_served[c] < MaxRequests) =>
                \A m \in Requests : ENABLED HandleFindPdb(c, m))

C24_Witness ==
    /\ conn_pc["c1"] = "open"
    /\ conn_served["c1"] = 2
    /\ conn_req["c1"] = FindPdb("U2")
    /\ conn_out["c1"] = FoundPdb("U2", NoPath)
    /\ pdbs["U1"] = PdbA

\* ---- run_service: the order of a reload

\* C26: while the reload is between tearing the old watchers down and
\* replacing the index, no per-root watcher is attached and no watcher
\* callback is running or waiting to run.
C26_ReloadOrder ==
    reload_pc \in {"scan", "store"} =>
        /\ path_watchers = {}
        /\ \A r \in Roots : pending[r] = <<>> /\ callback[r] = Idle


\* ---- the daemon's threads: properties

\* C25: a thread that holds the index lock is at no statement that reads or
\* writes a socket, opens or scans files, or writes the log file.
C25_NoIoUnderLock ==
    \A t \in Threads : index_lock = t => svc_pc[t] \notin IoStatements

\* C27: the step in which the config callback's read_config fails writes a
\* warning or an error about it to the log.
C27_FailureLogged ==
    [][(svc_pc["config"] = "cfg_read" /\ svc_pc'["config"] = "idle") =>
          \E line \in log_file' :
              line.level \in {"Warn", "Error"} /\ line.about = "read_config"]_vars

\* C28: after a failed start Running is never reported, and Running is
\* reported only while the listener is bound and accepting.
C28_StartupFatal ==
    /\ svc_pc["main"] = "failed" => svc_status # "Running"
    /\ svc_status = "Running" => svc_pc["listener"] = "accepting"


\* C31: Running is reported only once the first scan, the root watchers, the
\* config watcher and the listener thread are in place, Stopped only after
\* the control loop was left, and a run of run_service that has ended has
\* reported Stopped.
C31_Lifecycle ==
    /\ svc_status = "Running" =>
          /\ svc_pc["main"] \in {"serving", "set_stopped"}
          /\ svc_pc["config"] # "none" /\ svc_pc["listener"] # "none"
    /\ svc_status = "Stopped" => svc_pc["main"] = "returned"
    /\ svc_pc["main"] \in {"failed", "returned"} => svc_status = "Stopped"


\* C36: a thread that holds the index lock is never waiting on another
\* thread: it is at no statement that needs something another thread holds.
C36_HolderNeverWaits ==
    \A t \in Threads :
        index_lock = t => ~(svc_pc[t] \in LogStatements /\ log_writer \notin {"none", t})


\* ---- extract_one's threads: properties

\* C37: the extract_one process never listens on the daemon's port, its
\* connection is accepted by the daemon or by nobody, and the response it
\* reads is the answer of the daemon's index.
C37_ClientOnly ==
    /\ port_listener # "watch"
    /\ xt_peer \in {"none", "daemon"}
    /\ ~xt_in.daemon_up => xt_peer = "none"
    /\ xt_response # NoMessage =>
          xt_response = FoundPdb(xt_in.pdb_uuid, MapGet(xt_in.daemon_pdbs, xt_in.pdb_uuid))

====
